---- MODULE Spec2Model ----
(***************************************************************************)
(* A model of the request cycle of python-armet (formerly flapjack).       *)
(*                                                                         *)
(* Two generations of the resource protocol live in the repository and are *)
(* both modelled:                                                          *)
(*   cls = "BaseResource"  src/src/flapjack/resources/base.py              *)
(*   cls = "Resource"      src/src/flapjack/resources/__init__.py          *)
(*                                                                         *)
(* Python values are modelled as follows.  None is the string "None"; an   *)
(* absent header is NoHeader; tuples and lists are sequences; a verb, an   *)
(* encoder name, a media type is a string.  str.lower, str.upper and       *)
(* str.strip are tables over the strings the model draws.  An encoder or   *)
(* decoder object is identified by the name it is configured under.        *)
(* The result of a call into an external collaborator (an authentication   *)
(* provider, the data-access layer, a form) is drawn when the call is made.*)
(***************************************************************************)
EXTENDS Integers, Sequences, FiniteSets, TLC

VARIABLES
    cls,                          \* which class serves the request
    slug,                         \* self.slug / self.identifier
    format,                       \* self.format (the `.fmt` token)
    path,                         \* kwargs['path'] / self.path: the segments left
    parent,                       \* kwargs['parent'] / self.parent: the chain of links
    local,                        \* kwargs['local'] / self.local
    resource,                     \* the resource class traversal has arrived at
    request,                      \* the request object
    http_list_allowed_methods,    \* class attribute (resolved)
    http_detail_allowed_methods,  \* class attribute (resolved)
    list_allowed_operations,      \* class attribute (resolved)
    detail_allowed_operations,    \* class attribute (resolved)
    encoders,                     \* class attribute: name -> encoder (its mimetype)
    allowed_encoders,             \* class attribute
    default_encoder,              \* class attribute
    decoders,                     \* class attribute
    authentication,               \* class attribute: the provider chain
    objects,                      \* self.model.objects: the rows of the model, in order
    resource_uri,                 \* class attribute: the name of the URI field
    _registry,                    \* Api._registry: name -> handler
    trailing_slash,               \* Api.trailing_slash
    registered,                   \* calls made to Api.register, in order
    _fields,                      \* cls._fields of the model resources: class -> fields
    _prefetch_related_paths,      \* BaseModel._prefetch_related_paths, per class
    threads,                      \* the calls of prefetch_related under way
    map,                          \* Registry.map: key -> (value -> object)
    pc,                           \* position in view / dispatch
    auth_i,                       \* position of the for loop of authenticate
    consulted,                    \* calls made to auth.authenticate, in order
    method,                       \* the effective verb: local `method` / Resource.method
    function,                     \* the handler _determine_method returned
    encoder,                      \* local `encoder` of dispatch / view
    decoder,                      \* local `decoder` of dispatch
    data,                         \* local `data` of dispatch
    status,                       \* local `status` / Resource.status
    raised,                       \* the exception in flight or handled
    response,                     \* the response returned to the host
    steps,                        \* the steps executed so far, in order
    invoked                       \* data-access operations called, in order

confVars == <<cls, http_list_allowed_methods, http_detail_allowed_methods,
              list_allowed_operations, detail_allowed_operations, encoders,
              allowed_encoders, default_encoder, decoders, authentication,
              objects, resource_uri, _registry, trailing_slash, registered,
              _fields, _prefetch_related_paths, threads, map>>
selfVars == <<slug, format, path, parent, local, resource>>
authVars == <<auth_i, consulted>>
vars == <<confVars, selfVars, request, pc, authVars, method, function, encoder,
          decoder, data, status, raised, response, steps, invoked>>

None == "None"
NoHeader == "NoHeader"

\* kwargs without a 'path' key, self.path = None: a path is a sequence of
\* segments, and no segment is None.
NoPath == <<None>>

----------------------------------------------------------------------------
(* Bounds of the model.                                                    *)

\* Longest authentication chain drawn.
MaxChain == 2

\* Longest path (in segments) a URL carries after the slug.
MaxPath == 3

\* Most rows the model of a resource holds.
MaxRows == 2

\* Longest list the data-access layer returns.
MaxItems == 2

----------------------------------------------------------------------------
(* Strings.                                                                *)

\* str.lower over the strings of the model.
lower(s) ==
    CASE s \in {"GET", "Get", "get"} -> "get"
      [] s \in {"POST", "Post", "post"} -> "post"
      [] s \in {"PUT", "put"} -> "put"
      [] s \in {"DELETE", "Delete", "delete"} -> "delete"
      [] s \in {"PATCH", "patch"} -> "patch"
      [] s \in {"OPTIONS", "options"} -> "options"
      [] s \in {"HEAD", "head"} -> "head"
      [] s \in {"CONNECT", "connect"} -> "connect"
      [] s \in {"TRACE", "trace"} -> "trace"
      [] s \in {"BREW", "brew"} -> "brew"
      [] s \in {"ROUTE", "route"} -> "route"
      [] s \in {"SETUP", "setup"} -> "setup"
      [] s \in {"JSON", "Json", "json"} -> "json"
      [] s \in {"XML", "xml"} -> "xml"
      [] s \in {"YAML", "yaml"} -> "yaml"
      [] s \in {"Poll", "poll"} -> "poll"
      [] s \in {"Choice", "choice"} -> "choice"
      [] s \in {"User", "user"} -> "user"
      [] s \in {"F", "f"} -> "f"
      [] s \in {"B", "b"} -> "b"
      [] s \in {"R", "r"} -> "r"
      [] OTHER -> s

\* str.upper over the strings of the model.
upper(s) ==
    CASE s \in {"GET", "Get", "get"} -> "GET"
      [] s \in {"POST", "Post", "post"} -> "POST"
      [] s \in {"PUT", "put"} -> "PUT"
      [] s \in {"DELETE", "Delete", "delete"} -> "DELETE"
      [] s \in {"PATCH", "patch"} -> "PATCH"
      [] s \in {"OPTIONS", "options"} -> "OPTIONS"
      [] s \in {"HEAD", "head"} -> "HEAD"
      [] s \in {"CONNECT", "connect"} -> "CONNECT"
      [] s \in {"TRACE", "trace"} -> "TRACE"
      [] s \in {"BREW", "brew"} -> "BREW"
      [] OTHER -> s

\* str.strip over the strings of the model.
strip(s) ==
    CASE s \in {" */* ", "*/* ", " */*"} -> "*/*"
      [] s = " application/xml " -> "application/xml"
      [] OTHER -> s

\* x in tuple
In(x, seq) == \E i \in 1..Len(seq) : seq[i] = x

\* (m.upper() for m in seq); ', '.join(...) is kept as the sequence
uppers(seq) == [i \in 1..Len(seq) |-> upper(seq[i])]

\* The sequences over S of length at most n.
SeqUpTo(S, n) == UNION {[1..k -> S] : k \in 0..n}

----------------------------------------------------------------------------
(* Static configuration of the two classes.                                *)

\* http_method_names: the verbs each class understands.  In the __init__.py
\* generation the tuple reads 'patch' 'options' with no comma between them,
\* which Python concatenates into the single name 'patchoptions'.
http_method_names(c) ==
    IF c = "BaseResource"
    THEN <<"get", "post", "put", "delete", "patch", "options", "head",
           "connect", "trace">>
    ELSE <<"get", "post", "put", "delete", "patchoptions", "head",
           "connect", "trace">>

\* getattr(self, name, None) is not None: the handlers each class binds.
bound(c) ==
    IF c = "BaseResource" THEN {"get", "post"}
    ELSE {"get", "post", "put", "delete"}

\* encoder.mimetype of the encoders a resource may configure.
Mimetypes == [json |-> "application/json", xml |-> "application/xml"]

\* encoder.can_transcode(accept): the media-type predicate of an encoder,
\* supporting range wildcards.
can_transcode(mimetype, accept) ==
    LET range == strip(accept) IN
    \/ range = mimetype
    \/ range = "*/*"
    \/ range = "application/*"
         /\ mimetype \in {"application/json", "application/xml"}

\* decoder.can_transcode(content_type) of the decoder configured as `name`.
decoder_can_transcode(name, content_type) ==
    CASE name = "form" -> content_type = "application/x-www-form-urlencoded"
      [] name = "json" -> content_type = "application/json"
      [] name = "xml" -> content_type = "application/xml"
      [] name = "plain" -> content_type = "text/plain"
      [] name = "text" -> content_type \in {"text/plain", "text/html"}
      [] OTHER -> FALSE

----------------------------------------------------------------------------
(* Resources, fields and relations.                                        *)

\* helpers.relation(resource, related_name=..., local=...)
relation(res, related_name, is_local) ==
    [resource |-> res, related_name |-> related_name, local |-> is_local]

\* field.relation of a field that has none.
NoRelation == relation(None, None, FALSE)

\* A field descriptor of cls._fields.
Field(name, visible, rel, collection) ==
    [name |-> name, visible |-> visible, relation |-> rel,
     collection |-> collection]

\* cls._fields of the resources drawn, in declaration order.
Fields(res) ==
    CASE res = "Poll" ->
           << Field("question", TRUE, NoRelation, FALSE),
              Field("secret", FALSE, NoRelation, FALSE),
              Field("choices", TRUE, relation("Choice", "poll", TRUE), TRUE),
              Field("author", TRUE, relation("User", "polls", FALSE), FALSE) >>
      [] res = "Choice" ->
           << Field("text", TRUE, NoRelation, FALSE),
              Field("votes", FALSE, relation("User", "votes", FALSE), TRUE),
              Field("poll", TRUE, relation("Poll", "choices", TRUE), FALSE),
              Field("voters", TRUE, relation("User", "choices", TRUE), TRUE) >>
      [] res = "User" ->
           << Field("name", TRUE, NoRelation, FALSE),
              Field("password", FALSE, NoRelation, FALSE),
              Field("polls", TRUE, relation("Poll", "author", FALSE), TRUE),
              Field("tags", TRUE, NoRelation, TRUE) >>
      [] res = "PollSummary" ->
           << Field("question", TRUE, NoRelation, FALSE) >>

\* What stands for the KeyError of cls._fields[name].
NoField == Field(None, FALSE, NoRelation, FALSE)

\* cls._fields[name]
FieldOf(res, name) ==
    IF \E i \in 1..Len(Fields(res)) : Fields(res)[i].name = name
    THEN Fields(res)[CHOOSE i \in 1..Len(Fields(res)) :
                        Fields(res)[i].name = name]
    ELSE NoField

----------------------------------------------------------------------------
(* BaseResource: method resolution.                                        *)

\* BaseResource._allowed_methods
_allowed_methods ==
    IF slug # None THEN http_detail_allowed_methods
    ELSE http_list_allowed_methods

\* _determine_method testing the allowed methods before the understood ones.
_determine_method_allowed_first(req) ==
    LET overridden == req.override # NoHeader
        m == IF overridden THEN lower(req.override) ELSE lower(req.method)
        request_method == IF overridden THEN upper(m) ELSE req.method
        out(k, f, a) == [kind |-> k, function |-> f, allow |-> a,
                         method |-> m, request_method |-> request_method]
    IN  IF ~In(m, _allowed_methods)
        THEN out("MethodNotAllowed", None, uppers(_allowed_methods))
        ELSE IF ~In(m, http_method_names("BaseResource"))
        THEN out("NotImplemented", None, <<>>)
        ELSE IF lower(request_method) \notin bound("BaseResource")
        THEN out("NotImplemented", None, <<>>)
        ELSE out("return", lower(request_method), <<>>)

\* BaseResource._determine_method: the outcome for request `req`.
\* request_method is request.method as the call leaves it.
_determine_method(req) ==
    LET overridden == req.override # NoHeader
        m == IF overridden THEN lower(req.override) ELSE lower(req.method)
        request_method == IF overridden THEN upper(m) ELSE req.method
        out(k, f, a) == [kind |-> k, function |-> f, allow |-> a,
                         method |-> m, request_method |-> request_method]
    IN  IF ~In(m, http_method_names("BaseResource"))
        THEN out("NotImplemented", None, <<>>)
        ELSE IF ~In(m, _allowed_methods)
        THEN out("MethodNotAllowed", None, uppers(_allowed_methods))
        ELSE IF lower(request_method) \notin bound("BaseResource")
        THEN out("NotImplemented", None, <<>>)
        ELSE out("return", lower(request_method), <<>>)

----------------------------------------------------------------------------
(* Resource (__init__.py): method resolution.                              *)

\* Resource.get_http_allowed_methods
get_http_allowed_methods ==
    IF slug # None THEN http_detail_allowed_methods
    ELSE http_list_allowed_methods

\* Resource.http_allowed_methods_header
http_allowed_methods_header == uppers(get_http_allowed_methods)

\* Resource.determine_method: the outcome for request `req` when self.method
\* is `self_method` on entry.  The override header is taken as sent.
determine_method(req, self_method) ==
    LET m == IF self_method # None THEN self_method
             ELSE IF req.override # NoHeader THEN req.override
             ELSE lower(req.method)
        out(k, f, a) == [kind |-> k, function |-> f, allow |-> a,
                         method |-> m, request_method |-> req.method]
    IN  IF ~In(m, http_method_names("Resource"))
        THEN out("NotImplemented", None, <<>>)
        ELSE IF ~In(m, get_http_allowed_methods)
        THEN out("MethodNotAllowed", None, http_allowed_methods_header)
        ELSE IF m \notin bound("Resource")
        THEN out("NotImplemented", None, <<>>)
        ELSE out("return", m, <<>>)

----------------------------------------------------------------------------
(* BaseResource: content negotiation.                                      *)

\* self.encoders.get(name)
encoders_get(name) == IF name \in DOMAIN encoders THEN name ELSE None

\* `available` listing every configured encoder instead of the allowed ones.
available_all_encoders ==
    [kind |-> "NotAcceptable", encoder |-> None,
     available |-> [n \in DOMAIN encoders |-> encoders[n]]]

\* The dictionary `available` built before NotAcceptable is raised; a name
\* of allowed_encoders that is no key of encoders raises KeyError.
available ==
    IF \E i \in 1..Len(allowed_encoders) :
          allowed_encoders[i] \notin DOMAIN encoders
    THEN [kind |-> "KeyError", encoder |-> None, available |-> <<>>]
    ELSE [kind |-> "NotAcceptable", encoder |-> None,
          available |-> [n \in {allowed_encoders[i] :
                                  i \in 1..Len(allowed_encoders)}
                           |-> encoders[n]]]

\* The loop `for name in self.allowed_encoders` of _determine_encoder, from
\* position i on.
RECURSIVE accept_loop(_, _)
accept_loop(i, accept) ==
    IF i > Len(allowed_encoders) THEN available
    ELSE IF allowed_encoders[i] \notin DOMAIN encoders
    THEN [kind |-> "KeyError", encoder |-> None, available |-> <<>>]
    ELSE IF can_transcode(encoders[allowed_encoders[i]], accept)
    THEN [kind |-> "return", encoder |-> allowed_encoders[i],
          available |-> <<>>]
    ELSE accept_loop(i + 1, accept)

\* _determine_encoder consulting the Accept header before the format token.
_determine_encoder_accept_first(fmt, http_accept) ==
    LET accept == IF http_accept = NoHeader THEN "*/*" ELSE http_accept IN
    IF strip(accept) # "*/*"
    THEN accept_loop(1, http_accept)
    ELSE IF fmt # None
    THEN LET name == lower(fmt) IN
         IF In(name, allowed_encoders) /\ encoders_get(name) # None
         THEN [kind |-> "return", encoder |-> encoders_get(name),
               available |-> <<>>]
         ELSE available
    ELSE [kind |-> "return", encoder |-> encoders_get(default_encoder),
          available |-> <<>>]

\* _determine_encoder going on to the Accept header and then to the default
\* encoder when the format token names no allowed encoder.
_determine_encoder_fall_through(fmt, http_accept) ==
    LET accept == IF http_accept = NoHeader THEN "*/*" ELSE http_accept
        named == fmt # None /\ In(lower(fmt), allowed_encoders)
                    /\ encoders_get(lower(fmt)) # None
    IN  IF named
        THEN [kind |-> "return", encoder |-> encoders_get(lower(fmt)),
              available |-> <<>>]
        ELSE IF strip(accept) # "*/*"
        THEN accept_loop(1, http_accept)
        ELSE [kind |-> "return", encoder |-> encoders_get(default_encoder),
              available |-> <<>>]

\* _determine_encoder comparing the Accept header to the wildcard without
\* stripping it.
_determine_encoder_unstripped(fmt, http_accept) ==
    LET accept == IF http_accept = NoHeader THEN "*/*" ELSE http_accept IN
    IF fmt # None
    THEN LET name == lower(fmt) IN
         IF In(name, allowed_encoders) /\ encoders_get(name) # None
         THEN [kind |-> "return", encoder |-> encoders_get(name),
               available |-> <<>>]
         ELSE available
    ELSE IF accept # "*/*"
    THEN accept_loop(1, http_accept)
    ELSE [kind |-> "return", encoder |-> encoders_get(default_encoder),
          available |-> <<>>]

\* BaseResource._determine_encoder for the format token `fmt` and the
\* Accept header `http_accept` (NoHeader when absent).
_determine_encoder(fmt, http_accept) ==
    LET accept == IF http_accept = NoHeader THEN "*/*" ELSE http_accept IN
    IF fmt # None
    THEN LET name == lower(fmt) IN
         IF In(name, allowed_encoders) /\ encoders_get(name) # None
         THEN [kind |-> "return", encoder |-> encoders_get(name),
               available |-> <<>>]
         ELSE available
    ELSE IF strip(accept) # "*/*"
    THEN accept_loop(1, http_accept)
    ELSE [kind |-> "return", encoder |-> encoders_get(default_encoder),
          available |-> <<>>]

\* The loop of _determine_decoder returning the last decoder that matches.
decoder_loop_last(i, content) ==
    LET matching == {j \in i..Len(decoders) :
                       decoder_can_transcode(decoders[j], content)}
    IN  IF matching = {}
        THEN [kind |-> "UnsupportedMediaType", decoder |-> None]
        ELSE [kind |-> "return",
              decoder |-> decoders[CHOOSE j \in matching :
                                      \A k \in matching : k <= j]]

\* The loop of BaseResource._determine_decoder, from position i on.
RECURSIVE decoder_loop(_, _)
decoder_loop(i, content) ==
    IF i > Len(decoders) THEN [kind |-> "UnsupportedMediaType", decoder |-> None]
    ELSE IF decoder_can_transcode(decoders[i], content)
    THEN [kind |-> "return", decoder |-> decoders[i]]
    ELSE decoder_loop(i + 1, content)

\* BaseResource._determine_decoder
_determine_decoder(req) ==
    decoder_loop(1, IF req.content_type = NoHeader
                    THEN "application/octet-stream" ELSE req.content_type)

----------------------------------------------------------------------------
(* Operation authorization.                                                *)

\* BaseResource._allowed_operations
_allowed_operations ==
    IF slug # None THEN detail_allowed_operations
    ELSE list_allowed_operations

\* Resource.get_allowed_methods (the allowed operations of the access)
get_allowed_methods ==
    IF slug # None THEN detail_allowed_operations
    ELSE list_allowed_operations

\* The exception in flight: its kind and what it carries.
Error(k) == [kind |-> k, allow |-> <<>>, allowed |-> <<>>,
             operation |-> None, available |-> <<>>]

NoError == Error(None)

\* BaseResource._assert_operation: the Forbidden it raises, or NoError.
_assert_operation(operation) ==
    IF ~In(operation, _allowed_operations)
    THEN [Error("Forbidden") EXCEPT !.allowed = _allowed_operations,
                                    !.operation = operation]
    ELSE NoError

\* Resource.assert_method_allowed: the Forbidden it raises, or NoError.
assert_method_allowed(operation) ==
    IF ~In(operation, get_allowed_methods)
    THEN [Error("Forbidden") EXCEPT !.allowed = get_allowed_methods,
                                    !.operation = operation]
    ELSE NoError

----------------------------------------------------------------------------
(* Values exchanged with the external collaborators.                       *)

\* What auth.authenticate(request) may return: None, a user object that is
\* not authenticated, a user object that is.
Principals == {None, "anonymous", "user"}

\* user.is_authenticated()
is_authenticated(user) == user = "user"

\* Python data: None, a list of items, a mapping, one item.
NoData == [kind |-> "None", items |-> <<>>]

List(items) == [kind |-> "list", items |-> items]

\* What self.read() may return.
ReadResults ==
    {NoData, [kind |-> "mapping", items |-> <<1>>]}
      \cup {List([i \in 1..n |-> i]) : n \in 0..MaxItems}

\* `not items`
falsy(items) == items.kind = "None" \/ items.items = <<>>

\* The status code each kind of error carries.
error_status(kind) ==
    CASE kind = "BadRequest" -> 400
      [] kind = "Unauthenticated" -> 401
      [] kind = "Forbidden" -> 403
      [] kind = "NotFound" -> 404
      [] kind = "MethodNotAllowed" -> 405
      [] kind = "NotAcceptable" -> 406
      [] kind = "UnsupportedMediaType" -> 415
      [] kind = "NotImplemented" -> 501
      [] OTHER -> 500

NoResponse == [status |-> 0, content |-> None, content_type |-> None,
               allow |-> <<>>, encoder |-> None]

\* raise of an exceptions.Error
Raise(err) == pc' = "except_Error" /\ raised' = err

\* raise of any other exception
Crash(kind) == pc' = "except_BaseException" /\ raised' = Error(kind)

----------------------------------------------------------------------------
(* BaseResource.view: traversal and construction.                          *)

\* raise of an exceptions.Error before the dispatch cycle
RaiseInView(err) == pc' = "view_except_Error" /\ raised' = err

\* helpers.parent(resource=cls(...), slug=..., name=..., related_name=...)
ParentLink(res, link_slug, name, related_name) ==
    [resource |-> res, slug |-> link_slug, name |-> name,
     related_name |-> related_name]

\* `not kwargs.get('path') or not kwargs['path'][0]`
no_path(p) == p = NoPath \/ p = <<>> \/ p[1] = ""

\* The test of traverse with the visibility of the field left out.
missing_only(field) == field = NoField

\* The test of traverse that ends it with NotFound: the KeyError of the
\* lookup, or a field that is not visible.
missing_or_hidden(field) == field = NoField \/ ~field.visible

\* BaseResource.traverse, one call: the recursion is the next call.
traverse ==
    /\ cls = "BaseResource" /\ pc = "traverse"
    /\ IF no_path(path)
       THEN /\ pc' = "construct"
            /\ UNCHANGED <<slug, path, parent, local, resource, raised>>
       ELSE LET name == path[1]
                field == FieldOf(resource, name)
            IN  IF missing_or_hidden(field)
                THEN /\ RaiseInView(Error("NotFound"))
                     /\ UNCHANGED <<slug, path, parent, local, resource>>
                ELSE IF field.relation = NoRelation
                THEN /\ pc' = "construct"
                     /\ UNCHANGED <<slug, path, parent, local, resource,
                                    raised>>
                ELSE IF slug = None
                THEN /\ Crash("KeyError")
                     /\ path' = Tail(path)
                     /\ UNCHANGED <<slug, parent, local, resource>>
                ELSE /\ parent' = Append(parent,
                                     ParentLink(resource, slug, name,
                                                field.relation.related_name))
                     /\ IF field.collection /\ Tail(path) # <<>>
                        THEN /\ slug' = path[2]
                             /\ path' = Tail(Tail(path))
                        ELSE /\ slug' = None
                             /\ path' = Tail(path)
                     /\ local' = field.relation.local
                     /\ resource' = field.relation.resource
                     /\ pc' = "traverse"
                     /\ raised' = raised
    /\ steps' = Append(steps, "traverse")
    /\ UNCHANGED <<decoder, confVars, format, request, authVars, method,
                   function, encoder, data, status, response, invoked>>

\* BaseResource.__init__: obj = resource(request=request, **kwargs)
construct ==
    /\ cls = "BaseResource" /\ pc = "construct"
    /\ IF /\ slug = None
          /\ parent # <<>>
          /\ ~FieldOf(parent[Len(parent)].resource,
                      parent[Len(parent)].name).collection
       THEN Crash("NameError")
       ELSE pc' = "authenticate" /\ raised' = raised
    /\ steps' = Append(steps, "construct")
    /\ UNCHANGED <<decoder, confVars, selfVars, request, authVars, method,
                   function, encoder, data, status, response, invoked>>

\* BaseResource.view: except exceptions.Error as ex: return ex.dispatch()
view_except_Error ==
    /\ cls = "BaseResource" /\ pc = "view_except_Error"
    /\ response' = [status |-> error_status(raised.kind),
                    content |-> raised,
                    content_type |-> None,
                    allow |-> raised.allow,
                    encoder |-> "default"]
    /\ pc' = "done"
    /\ UNCHANGED <<decoder, confVars, selfVars, request, authVars, method,
                   function, encoder, data, status, raised, steps, invoked>>

----------------------------------------------------------------------------
(* BaseResource.reverse.                                                   *)

\* Longest parent chain handed to reverse.
MaxParents == 2

\* cls._url_format(identifier) % (...): the URL of the resource as a whole
\* (_URL), of one instance (_URL_SLUG), of a path below one instance
\* (_URL_PATH); os.path.join(*path) is kept as the sequence of segments.
_url_format(identifier, res, s, p) ==
    [form |-> identifier, resource |-> res, slug |-> s, path |-> p]

\* parent.resource.local of link i of a chain: the instance was built by
\* traverse with the local flag of the hop that led to it, and with none
\* at the top.
resource_local(chain, i) ==
    IF i = 1 THEN FALSE
    ELSE FieldOf(chain[i - 1].resource, chain[i - 1].name).relation.local

\* The composite path with the slug included whatever the field is.
composite_any_field(link, s, p) ==
    <<link.name>> \o (IF s # None THEN <<s>> ELSE <<>>)
                  \o (IF p # NoPath THEN p ELSE <<>>)

\* The composite path reverse builds below a parent link.
composite(link, s, p) ==
    <<link.name>>
       \o (IF s # None /\ FieldOf(link.resource, link.name).collection
           THEN <<s>> ELSE <<>>)
       \o (IF p # NoPath THEN p ELSE <<>>)

\* BaseResource.reverse(slug, path, parent, local) of resource res
RECURSIVE reverse(_, _, _, _, _)
reverse(res, s, p, chain, is_local) ==
    IF is_local /\ chain # <<>>
    THEN LET link == chain[Len(chain)] IN
         reverse(link.resource, link.slug, composite(link, s, p),
                 SubSeq(chain, 1, Len(chain) - 1),
                 resource_local(chain, Len(chain)))
    ELSE IF s = None THEN _url_format("_URL", res, None, <<>>)
    ELSE IF p # NoPath THEN _url_format("_URL_PATH", res, s, p)
    ELSE _url_format("_URL_SLUG", res, s, <<>>)

\* BaseResource.url:
\* self.reverse(self.slug, self.path, self.parent, self.local)
url ==
    /\ cls = "BaseResource" /\ pc = "url"
    /\ data' = reverse(resource, slug, path, parent, local)
    /\ pc' = "done"
    /\ UNCHANGED <<decoder, confVars, selfVars, request, authVars, method,
                   function, encoder, status, raised, response, steps, invoked>>

----------------------------------------------------------------------------
(* Model resources: read over the rows of the model.                       *)

\* A row of the Choice model: its primary key, the poll it belongs to and
\* the author of that poll.
Row(pk, poll) ==
    [pk |-> pk, poll |-> poll, author |-> IF poll = "5" THEN "9" ELSE "8"]

\* The value a lookup such as poll__author reads on a row; a lookup the
\* model does not have matches nothing.
lookup(row, names) ==
    CASE names = <<"poll">> -> row.poll
      [] names = <<"poll", "author">> -> row.author
      [] OTHER -> "FieldError"

\* int(slug), and the pk filter of the ORM: both raise ValueError on a
\* slug that is no number.
numeric(s) == s \in {"0", "1", "2", "3"}

int(s) == CASE s = "0" -> 0 [] s = "1" -> 1 [] s = "2" -> 2 [] s = "3" -> 3

\* queryset.filter(pk=slug)
filter_pk(rows, pk) == SelectSeq(rows, LAMBDA row : row.pk = pk)

\* The loop of read over the parent chain: every link filters the rows by
\* the related names joined so far, from the nearest parent outwards.
RECURSIVE filter_parents(_, _, _)
filter_parents(rows, chain, names) ==
    IF chain = <<>> THEN rows
    ELSE LET link == chain[Len(chain)]
             joined == Append(names, link.related_name)
         IN  filter_parents(
                SelectSeq(rows, LAMBDA row : lookup(row, joined) = link.slug),
                SubSeq(chain, 1, Len(chain) - 1), joined)

\* What read hands back: rows, one row, or NotFound.
Rows(rows) == [kind |-> "list", items |-> rows]

OneRow(row) == [kind |-> "item", items |-> <<row>>]

ReadNotFound == [kind |-> "NotFound", items |-> <<>>]

\* armet BaseModel.read (src/src/armet/resources/model.py)
armet_read ==
    IF slug # None /\ ~numeric(slug) THEN ReadNotFound
    ELSE IF /\ slug # None
            /\ filter_pk(objects, slug) = <<>>
            /\ path # NoPath /\ path # <<>>
            /\ int(slug) + 1 <= Len(objects)
    THEN OneRow(objects[int(slug) + 1])
    ELSE LET queryset == filter_parents(objects, parent, <<>>)
             chance == filter_pk(objects, slug)
         IN  IF slug # None
             THEN IF chance = <<>> THEN ReadNotFound ELSE OneRow(chance[1])
             ELSE Rows(queryset)

\* flapjack BaseModel.read (src/src/flapjack/resources/model.py)
flapjack_read ==
    LET queryset == filter_parents(objects, parent, <<>>) IN
    IF slug # None
    THEN IF ~numeric(slug) THEN ReadNotFound
         ELSE Rows(filter_pk(queryset, slug))
    ELSE Rows(queryset)

\* Model.queryset of __init__.py: the rows filtered by self.params, which
\* traversal fills with one entry per parent, resource name -> identifier.
params_queryset ==
    SelectSeq(objects,
              LAMBDA row : \A i \in 1..Len(parent) :
                  lookup(row, <<lower(parent[i].resource)>>) = parent[i].slug)

\* Some entry of self.params names no attribute of the model: the ORM
\* raises FieldError when the queryset is built.
params_unknown ==
    \E i \in 1..Len(parent) :
       lookup(objects[1], <<lower(parent[i].resource)>>) = "FieldError"

\* Model.read (src/src/flapjack/resources/__init__.py): on a detail read
\* every exception, FieldError included, becomes NotFound.
model_read ==
    IF slug # None
    THEN IF objects = <<>> \/ params_unknown
               \/ filter_pk(params_queryset, slug) = <<>>
         THEN ReadNotFound
         ELSE OneRow(filter_pk(params_queryset, slug)[1])
    ELSE IF objects # <<>> /\ params_unknown
    THEN [kind |-> "FieldError", items |-> <<>>]
    ELSE Rows(params_queryset)

\* BaseResource.get: what it returns for the result `items` of self.read().
get_return(items) ==
    IF slug # None
    THEN IF falsy(items) THEN [raise |-> "NotFound", data |-> NoData]
         ELSE IF items.kind # "mapping"
         THEN [raise |-> None,
               data |-> [kind |-> "item", items |-> <<items.items[1]>>]]
         ELSE [raise |-> None, data |-> items]
    ELSE IF items.kind = "None" THEN [raise |-> None, data |-> List(<<>>)]
         ELSE [raise |-> None, data |-> items]

\* A read on its own: self.read() of a model resource.
read_armet ==
    /\ cls = "armet.BaseModel" /\ pc = "read"
    /\ LET out == armet_read IN
          IF out.kind = "NotFound"
          THEN raised' = Error("NotFound") /\ data' = data
          ELSE raised' = raised /\ data' = out
    /\ pc' = "done"
    /\ invoked' = Append(invoked, "read")
    /\ UNCHANGED <<decoder, confVars, selfVars, request, authVars, method,
                   function, encoder, status, response, steps>>

\* BaseResource.get over flapjack BaseModel.read
get_flapjack ==
    /\ cls = "flapjack.BaseModel" /\ pc = "read"
    /\ LET items == flapjack_read IN
          IF items.kind = "NotFound" \/ get_return(items).raise # None
          THEN raised' = Error("NotFound") /\ data' = data
          ELSE raised' = raised /\ data' = get_return(items).data
    /\ pc' = "done"
    /\ invoked' = Append(invoked, "read")
    /\ UNCHANGED <<decoder, confVars, selfVars, request, authVars, method,
                   function, encoder, status, response, steps>>

\* Resource.get over Model.read
get_model ==
    /\ cls = "Model" /\ pc = "read"
    /\ LET out == model_read IN
          IF out.kind \in {"NotFound", "FieldError"}
          THEN raised' = Error(out.kind) /\ data' = data
          ELSE raised' = raised /\ data' = out
    /\ pc' = "done"
    /\ invoked' = Append(invoked, "read")
    /\ UNCHANGED <<decoder, confVars, selfVars, request, authVars, method,
                   function, encoder, status, response, steps>>

----------------------------------------------------------------------------
(* BaseResource.dispatch, step by step.                                    *)

\* The test of authenticate with allow_anonymous left out.
accepts_authenticated_only(user, auth) ==
    user # None /\ is_authenticated(user)

\* The test of authenticate that ends the loop with `user` as the
\* request's user.
accepts(user, auth) ==
    user # None /\ (is_authenticated(user) \/ auth.allow_anonymous)

\* BaseResource.authenticate: one pass of `for auth in self.authentication`.
authenticate ==
    /\ cls = "BaseResource" /\ pc = "authenticate"
    /\ auth_i <= Len(authentication)
    /\ \E user \in Principals :
          /\ consulted' = Append(consulted,
                                 [provider |-> auth_i, user |-> user])
          /\ IF accepts(user, authentication[auth_i])
             THEN /\ request' = [request EXCEPT !.user = user]
                  /\ pc' = "determine_method"
                  /\ auth_i' = auth_i
             ELSE /\ request' = request
                  /\ pc' = pc
                  /\ auth_i' = auth_i + 1
    /\ steps' = IF auth_i = 1 THEN Append(steps, "authenticate") ELSE steps
    /\ UNCHANGED <<decoder, confVars, selfVars, method, function, encoder, data,
                   status, raised, response, invoked>>

\* BaseResource.authenticate: the else clause of the loop, `raise
\* auth.Unauthenticated`.  After an empty chain the name auth is unbound.
authenticate_else ==
    /\ cls = "BaseResource" /\ pc = "authenticate"
    /\ auth_i > Len(authentication)
    /\ IF Len(authentication) = 0
       THEN Crash("NameError") /\ steps' = Append(steps, "authenticate")
       ELSE Raise(Error("Unauthenticated")) /\ steps' = steps
    /\ UNCHANGED <<decoder, confVars, selfVars, request, authVars, method, function,
                   encoder, data, status, response, invoked>>

\* function = self._determine_method()
dispatch_determine_method ==
    /\ cls = "BaseResource" /\ pc = "determine_method"
    /\ LET out == _determine_method(request) IN
          /\ request' = [request EXCEPT !.method = out.request_method]
          /\ method' = out.method
          /\ IF out.kind = "return"
             THEN /\ function' = out.function
                  /\ pc' = "determine_encoder"
                  /\ raised' = raised
             ELSE /\ function' = function
                  /\ Raise([Error(out.kind) EXCEPT !.allow = out.allow])
    /\ steps' = Append(steps, "determine_method")
    /\ UNCHANGED <<decoder, confVars, selfVars, authVars, encoder, data,
                   status, response, invoked>>

\* encoder = self._determine_encoder()
dispatch_determine_encoder ==
    /\ cls = "BaseResource" /\ pc = "determine_encoder"
    /\ LET out == _determine_encoder(format, request.accept) IN
          CASE out.kind = "return" ->
                  /\ encoder' = out.encoder
                  /\ pc' = IF request.body THEN "decode" ELSE "function"
                  /\ raised' = raised
            [] out.kind = "NotAcceptable" ->
                  /\ encoder' = encoder
                  /\ Raise([Error("NotAcceptable")
                              EXCEPT !.available = out.available])
            [] OTHER ->
                  /\ encoder' = encoder
                  /\ Crash(out.kind)
    /\ steps' = Append(steps, "determine_encoder")
    /\ UNCHANGED <<decoder, confVars, selfVars, request, authVars, method, function,
                   data, status, response, invoked>>

\* if self.request.body: decoder = self._determine_decoder();
\* content = decoder.decode(...); content = self.clean(content)
dispatch_decode ==
    /\ cls = "BaseResource" /\ pc = "decode"
    /\ LET out == _determine_decoder(request) IN
          IF out.kind = "return"
          THEN /\ decoder' = out.decoder
               /\ \E decoded \in BOOLEAN :
                  IF decoded
                  THEN /\ pc' = "function"
                       /\ raised' = raised
                       /\ steps' = steps \o <<"determine_decoder", "decode",
                                              "clean">>
                  ELSE /\ Crash("ValueError")
                       /\ steps' = steps \o <<"determine_decoder", "decode">>
          ELSE /\ decoder' = decoder
               /\ Raise(Error("UnsupportedMediaType"))
               /\ steps' = Append(steps, "determine_decoder")
    /\ UNCHANGED <<confVars, selfVars, request, authVars, method, function,
                   encoder, data, status, response, invoked>>

\* BaseResource.get reading before it checks the operation.
get_read_first ==
    LET denied == _assert_operation("read") IN
    /\ invoked' = Append(invoked, "read")
    /\ IF denied # NoError
       THEN /\ Raise(denied)
            /\ steps' = steps \o <<"function", "read", "assert_operation">>
            /\ UNCHANGED <<data, status>>
       ELSE /\ steps' = steps \o <<"function", "read", "assert_operation">>
            /\ \E items \in ReadResults :
                 LET out == get_return(items) IN
                 IF out.raise # None
                 THEN Raise(Error(out.raise)) /\ UNCHANGED <<data, status>>
                 ELSE /\ data' = out.data
                      /\ status' = 200
                      /\ pc' = "prepare"
                      /\ raised' = raised

\* BaseResource.get
get ==
    LET denied == _assert_operation("read") IN
    IF denied # NoError
    THEN /\ Raise(denied)
         /\ steps' = steps \o <<"function", "assert_operation">>
         /\ UNCHANGED <<data, status, invoked>>
    ELSE /\ invoked' = Append(invoked, "read")
         /\ steps' = steps \o <<"function", "assert_operation", "read">>
         /\ \E items \in ReadResults :
              LET out == get_return(items) IN
              IF out.raise # None
              THEN Raise(Error(out.raise)) /\ UNCHANGED <<data, status>>
              ELSE /\ data' = out.data
                   /\ status' = 200
                   /\ pc' = "prepare"
                   /\ raised' = raised

\* BaseResource.post
post ==
    /\ data' = NoData
    /\ status' = 204
    /\ pc' = "prepare"
    /\ steps' = Append(steps, "function")
    /\ UNCHANGED <<raised, invoked>>

\* data, status = function()
dispatch_function ==
    /\ cls = "BaseResource" /\ pc = "function"
    /\ CASE function = "get" -> get
         [] function = "post" -> post
    /\ UNCHANGED <<decoder, confVars, selfVars, request, authVars, method, function,
                   encoder, response>>

\* A value with no structure: what field `name` holds on item `item`
\* (item 0 is None).
Scalar(name, item) == [kind |-> "scalar", v |-> <<name, item>>]

\* A value that is a mapping.
Mapping(f) == [kind |-> "mapping", v |-> f]

\* field.prepare(self, item, field.accessor(item)): the question of a poll
\* is a mapping with a text, every other field a plain value.
field_value(res, name, item) ==
    IF name = "question" THEN Mapping([text |-> Scalar("text", item)])
    ELSE Scalar(name, item)

\* path_field.accessor(obj): the projection of obj through the segments; a
\* segment that cannot be resolved raises one of the errors item_prepare
\* turns into NotFound.
RECURSIVE accessor(_, _)
accessor(segs, value) ==
    IF segs = <<>> THEN [kind |-> "return", value |-> value]
    ELSE IF value.kind = "mapping" /\ Head(segs) \in DOMAIN value.v
    THEN accessor(Tail(segs), value.v[Head(segs)])
    ELSE [kind |-> "NotFound", value |-> value]

\* The names item_prepare sets on obj: the visible fields, and with a path
\* only the one its first segment names.
prepared_names ==
    LET fs == Fields(resource) IN
    {fs[i].name : i \in {k \in 1..Len(fs) :
                            /\ fs[k].visible
                            /\ (path # NoPath /\ path # <<>>)
                                  => path[1] = fs[k].name}}

\* item_prepare returning the whole item whatever the path.
item_prepare_full(item) ==
    [kind |-> "return",
     value |-> Mapping([n \in prepared_names |->
                           field_value(resource, n, item)])]

\* BaseResource.item_prepare
item_prepare(item) ==
    LET obj == Mapping([n \in prepared_names |->
                           field_value(resource, n, item)])
    IN  IF path # NoPath /\ path # <<>>
        THEN accessor(path, obj)
        ELSE [kind |-> "return", value |-> obj]

\* BaseResource.prepare: a list is handed on as a generator that prepares
\* each item when it is consumed; a mapping, a single object and None (on
\* which iteration raises TypeError) are prepared as one item.
prepare(d) ==
    IF d.kind = "list"
    THEN [kind |-> "return", value |-> [kind |-> "generator", v |-> d.items]]
    ELSE item_prepare(IF d.kind = "None" THEN 0 ELSE d.items[1])

\* encoder.encode(data): a generator is consumed, preparing its items.
encode(body) ==
    IF body.kind # "generator" THEN [kind |-> "return", value |-> body]
    ELSE IF \E i \in 1..Len(body.v) : item_prepare(body.v[i]).kind = "NotFound"
    THEN [kind |-> "NotFound", value |-> body]
    ELSE [kind |-> "return",
          value |-> [kind |-> "sequence",
                     v |-> [i \in 1..Len(body.v) |->
                               item_prepare(body.v[i]).value]]]

\* data = self.prepare(data).  The field accessors are external and may
\* fail on None.
dispatch_prepare ==
    /\ cls = "BaseResource" /\ pc = "prepare"
    /\ steps' = Append(steps, "prepare")
    /\ \/ LET out == prepare(data) IN
          IF out.kind = "NotFound"
          THEN Raise(Error("NotFound")) /\ data' = data
          ELSE /\ data' = [kind |-> "prepared", items |-> data.items,
                           of |-> data.kind, body |-> out.value]
               /\ pc' = "make_response"
               /\ raised' = raised
       \/ /\ data.kind = "None"
          /\ Crash("AttributeError")
          /\ data' = data
    /\ UNCHANGED <<decoder, confVars, selfVars, request, authVars, method, function,
                   encoder, status, response, invoked>>

\* return self.make_response(encoder, data, status)
dispatch_make_response ==
    /\ cls = "BaseResource" /\ pc = "make_response"
    /\ steps' = Append(steps, "make_response")
    /\ IF data.kind = "None"
       THEN /\ response' = [NoResponse EXCEPT !.status = status]
            /\ pc' = "done"
            /\ raised' = raised
       ELSE IF encoder = None
       THEN Crash("AttributeError") /\ response' = response
       ELSE LET out == encode(data.body) IN
            IF out.kind = "NotFound"
            THEN Raise(Error("NotFound")) /\ response' = response
            ELSE /\ response' = [NoResponse EXCEPT
                                    !.status = status,
                                    !.content = [data EXCEPT
                                                    !.body = out.value],
                                    !.content_type = encoders[encoder],
                                    !.encoder = encoder]
                 /\ pc' = "done"
                 /\ raised' = raised
    /\ UNCHANGED <<decoder, confVars, selfVars, request, authVars, method, function,
                   encoder, data, status, invoked>>

\* The error rendered without the encoder dispatch had resolved.
dispatch_except_Error_default ==
    /\ cls = "BaseResource" /\ pc = "except_Error"
    /\ response' = [status |-> error_status(raised.kind),
                    content |-> raised,
                    content_type |-> None,
                    allow |-> raised.allow,
                    encoder |-> "default"]
    /\ pc' = "done"
    /\ UNCHANGED <<decoder, confVars, selfVars, request, authVars, method, function,
                   encoder, data, status, raised, steps, invoked>>

\* except exceptions.Error as ex: return ex.dispatch(encoder)
dispatch_except_Error ==
    /\ cls = "BaseResource" /\ pc = "except_Error"
    /\ response' = [status |-> error_status(raised.kind),
                    content |-> raised,
                    content_type |-> None,
                    allow |-> raised.allow,
                    encoder |-> IF encoder # None THEN encoder
                                ELSE "default"]
    /\ pc' = "done"
    /\ UNCHANGED <<decoder, confVars, selfVars, request, authVars, method, function,
                   encoder, data, status, raised, steps, invoked>>

\* The failure raised again, as Resource.view does when debugging.
view_except_BaseException_reraise ==
    /\ cls = "BaseResource" /\ pc = "except_BaseException"
    /\ response' = response
    /\ pc' = "escaped"
    /\ UNCHANGED <<decoder, confVars, selfVars, request, authVars, method, function,
                   encoder, data, status, raised, steps, invoked>>

\* BaseResource.view: except BaseException
view_except_BaseException ==
    /\ cls = "BaseResource" /\ pc = "except_BaseException"
    /\ response' = [NoResponse EXCEPT !.status = 500]
    /\ pc' = "done"
    /\ UNCHANGED <<decoder, confVars, selfVars, request, authVars, method, function,
                   encoder, data, status, raised, steps, invoked>>

----------------------------------------------------------------------------
(* Resource.view and Resource.dispatch (__init__.py), step by step.        *)

\* encoder = encoders.find(request, kwargs.get('format')): the lookup is
\* external; it finds an encoder or raises NotAcceptable.
view_find_encoder ==
    /\ cls = "Resource" /\ pc = "find_encoder"
    /\ steps' = Append(steps, "find_encoder")
    /\ \/ /\ encoder' \in {"json", "xml"}
          /\ pc' = "determine_method"
          /\ raised' = raised
       \/ /\ Raise(Error("NotAcceptable"))
          /\ encoder' = encoder
    /\ UNCHANGED <<decoder, confVars, selfVars, request, authVars, method, function,
                   data, status, response, invoked>>

\* function = self.determine_method()
resource_determine_method ==
    /\ cls = "Resource" /\ pc = "determine_method"
    /\ LET out == determine_method(request, method) IN
          /\ method' = out.method
          /\ IF out.kind = "return"
             THEN /\ function' = out.function
                  /\ pc' = IF request.body THEN "decode" ELSE "function"
                  /\ raised' = raised
             ELSE /\ function' = function
                  /\ Raise([Error(out.kind) EXCEPT !.allow = out.allow])
    /\ steps' = Append(steps, "determine_method")
    /\ UNCHANGED <<decoder, confVars, selfVars, request, authVars, encoder, data,
                   status, response, invoked>>

\* obj = decoders.find(self.request).decode(self.request);
\* obj = self.clean(obj).  The decoder lookup and the form are external.
resource_decode ==
    /\ cls = "Resource" /\ pc = "decode"
    /\ \/ /\ Raise(Error("UnsupportedMediaType"))
          /\ steps' = Append(steps, "determine_decoder")
       \/ /\ Raise(Error("BadRequest"))
          /\ steps' = steps \o <<"determine_decoder", "decode", "clean">>
       \/ /\ pc' = "function"
          /\ raised' = raised
          /\ steps' = steps \o <<"determine_decoder", "decode", "clean">>
    /\ UNCHANGED <<decoder, confVars, selfVars, request, authVars, method, function,
                   encoder, data, status, response, invoked>>

\* Resource.get with Model.read
resource_get ==
    LET denied == assert_method_allowed("read") IN
    IF denied # NoError
    THEN /\ Raise(denied)
         /\ steps' = steps \o <<"function", "assert_operation">>
         /\ UNCHANGED <<data, status, invoked>>
    ELSE /\ invoked' = Append(invoked, "read")
         /\ steps' = steps \o <<"function", "assert_operation", "read">>
         /\ status' = status
         /\ IF slug # None
            THEN \/ Raise(Error("NotFound")) /\ data' = data
                 \/ /\ data' = [kind |-> "item", items |-> <<1>>]
                    /\ pc' = "prepare"
                    /\ raised' = raised
            ELSE /\ \E n \in 0..MaxItems : data' = List([i \in 1..n |-> i])
                 /\ pc' = "prepare"
                 /\ raised' = raised

\* Resource.post with Model.create; obj is None when no body was sent, and
\* Model.create then fails on `name not in obj`.
resource_post ==
    LET denied == assert_method_allowed("create") IN
    IF denied # NoError
    THEN /\ Raise(denied)
         /\ steps' = steps \o <<"function", "assert_operation">>
         /\ UNCHANGED <<data, status, invoked>>
    ELSE IF slug = None
    THEN /\ status' = 201
         /\ invoked' = Append(invoked, "create")
         /\ steps' = steps \o <<"function", "assert_operation", "create">>
         /\ IF request.body
            THEN /\ data' = [kind |-> "item", items |-> <<1>>]
                 /\ pc' = "prepare"
                 /\ raised' = raised
            ELSE Crash("TypeError") /\ data' = data
    ELSE /\ Raise(Error("NotImplemented"))
         /\ steps' = steps \o <<"function", "assert_operation">>
         /\ UNCHANGED <<data, status, invoked>>

\* Resource.put with Model.exists, Model.read, Model.update, Model.create
resource_put ==
    IF slug = None
    THEN /\ Raise(Error("NotImplemented"))
         /\ steps' = Append(steps, "function")
         /\ UNCHANGED <<data, status, invoked>>
    ELSE IF ~request.body
    THEN /\ Crash("TypeError")
         /\ steps' = Append(steps, "function")
         /\ UNCHANGED <<data, status, invoked>>
    ELSE \E exists \in BOOLEAN :
           LET operation == IF exists THEN "update" ELSE "create"
               denied == assert_method_allowed(operation)
           IN  IF denied # NoError
               THEN /\ Raise(denied)
                    /\ invoked' = Append(invoked, "exists")
                    /\ steps' = steps \o <<"function", "exists",
                                           "assert_operation">>
                    /\ UNCHANGED <<data, status>>
               ELSE /\ invoked' = invoked \o
                          (IF exists THEN <<"exists", "read", "update">>
                           ELSE <<"exists", "create">>)
                    /\ steps' = steps \o
                          (IF exists
                           THEN <<"function", "exists", "assert_operation",
                                  "read", "update">>
                           ELSE <<"function", "exists", "assert_operation",
                                  "create">>)
                    /\ data' = [kind |-> "item", items |-> <<1>>]
                    /\ status' = status
                    /\ pc' = "prepare"
                    /\ raised' = raised

\* Resource.delete with Model.destroy
resource_delete ==
    IF slug = None
    THEN /\ Raise(Error("NotImplemented"))
         /\ steps' = Append(steps, "function")
         /\ UNCHANGED <<data, status, invoked>>
    ELSE /\ status' = 204
         /\ invoked' = Append(invoked, "destroy")
         /\ steps' = steps \o <<"function", "destroy">>
         /\ data' = NoData
         /\ \/ pc' = "prepare" /\ raised' = raised
            \/ Crash("DoesNotExist")

\* return self.traverse(self.process, function, obj) with no components:
\* process calls function(obj)
resource_function ==
    /\ cls = "Resource" /\ pc = "function"
    /\ CASE function = "get" -> resource_get
         [] function = "post" -> resource_post
         [] function = "put" -> resource_put
         [] function = "delete" -> resource_delete
    /\ UNCHANGED <<decoder, confVars, selfVars, request, authVars, method, function,
                   encoder, response>>

----------------------------------------------------------------------------
(* Resource.traverse.                                                      *)

\* Resource.name: the name of the resource in URIs, `__name__.lower()`.
resource_name(res) ==
    CASE res = "Poll" -> "poll"
      [] res = "Choice" -> "choice"
      [] res = "User" -> "user"
      [] res = "PollSummary" -> "pollsummary"

\* self.fields.get(name) on resource res: the class attribute `fields`.
fields_get(res, name) ==
    IF \E i \in 1..Len(_fields[res]) : _fields[res][i].name = name
    THEN _fields[res][CHOOSE i \in 1..Len(_fields[res]) :
                         _fields[res][i].name = name]
    ELSE NoField

\* field.relation of the Resource classes: the related resource class.
related_to(res) == relation(res, None, FALSE)

\* resource.fields[self.name].relation = self.__class__
set_relation(fields, name, res) ==
    [i \in 1..Len(fields) |->
        IF fields[i].name = name
        THEN [fields[i] EXCEPT !.relation = related_to(res)]
        ELSE fields[i]]

\* Resource.traverse, one call: the recursion is the next call, and
\* process(method, obj) is the handler and the preparation that follow.
resource_traverse ==
    /\ cls = "Resource" /\ pc = "traverse"
    /\ IF no_path(path)
       THEN /\ pc' = "function"
            /\ UNCHANGED <<slug, path, resource, _fields, raised, invoked>>
       ELSE LET name == path[1]
                field == fields_get(resource, name)
                target == field.relation.resource
            IN  IF name = resource_uri
                THEN /\ pc' = "function"
                     /\ UNCHANGED <<slug, path, resource, _fields, raised,
                                    invoked>>
                ELSE IF field = NoField
                THEN /\ Raise(Error("NotFound"))
                     /\ UNCHANGED <<slug, path, resource, _fields, invoked>>
                ELSE IF field.relation = NoRelation
                THEN /\ pc' = "function"
                     /\ UNCHANGED <<slug, path, resource, _fields, raised,
                                    invoked>>
                ELSE IF field.collection
                THEN IF fields_get(target, resource_name(resource)) = NoField
                     THEN /\ Crash("KeyError")
                          /\ UNCHANGED <<slug, path, resource, _fields,
                                         invoked>>
                     ELSE /\ _fields' =
                               [_fields EXCEPT ![target] =
                                   set_relation(@, resource_name(resource),
                                                resource)]
                          /\ IF Len(path) >= 2
                             THEN /\ slug' = path[2]
                                  /\ path' = SubSeq(path, 3, Len(path))
                             ELSE /\ slug' = None
                                  /\ path' = SubSeq(path, 2, Len(path))
                          /\ resource' = target
                          /\ invoked' = invoked
                          /\ IF determine_method(request, method).kind
                                   = "return"
                             THEN pc' = "traverse" /\ raised' = raised
                             ELSE Raise(Error(determine_method(request,
                                                               method).kind))
                ELSE /\ invoked' = Append(invoked, "read")
                     /\ _fields' = _fields
                     /\ \/ /\ Raise(Error("NotFound"))
                           /\ UNCHANGED <<slug, path, resource>>
                        \/ /\ slug' = "7"
                           /\ path' = Tail(path)
                           /\ resource' = target
                           /\ IF determine_method(request, method).kind
                                    = "return"
                              THEN pc' = "traverse" /\ raised' = raised
                              ELSE Raise(Error(determine_method(request,
                                                                method).kind))
    /\ steps' = Append(steps, "traverse")
    /\ UNCHANGED <<cls, http_list_allowed_methods, http_detail_allowed_methods,
                   list_allowed_operations, detail_allowed_operations, encoders,
                   allowed_encoders, default_encoder, decoders, authentication,
                   objects, resource_uri, _registry, trailing_slash, registered,
                   _prefetch_related_paths, threads, map, format, parent,
                   local, request, authVars, method, function, encoder,
                   decoder, data, status, response>>

----------------------------------------------------------------------------
(* Resource.prepare and Resource.item_prepare.                             *)

\* Python values as Resource.prepare meets them: None, an object that
\* cannot be iterated, a string, a mapping, a sequence, and the URI that
\* reverse makes of a value.
PyNone == [kind |-> "None", v |-> <<>>]
Obj(i) == [kind |-> "object", v |-> <<i>>]
Str(s) == [kind |-> "string", v |-> <<s>>]
Dict(i) == [kind |-> "mapping", v |-> <<i>>]
PySeq(xs) == [kind |-> "sequence", v |-> xs]
OrderedDict(od) == [kind |-> "OrderedDict", v |-> od]

\* The value a handler returned, as a Python value.
value(d) ==
    CASE d.kind = "None" -> PyNone
      [] d.kind = "item" -> Obj(d.items[1])
      [] d.kind = "string" -> Str(d.items[1])
      [] d.kind = "mapping" -> Dict(d.items[1])
      [] d.kind = "list" -> PySeq([i \in 1..Len(d.items) |-> Obj(d.items[i])])

\* What the collection attributes of the items hold, item after item.
AttrKinds == <<"object", "string", "sequence", "empty", "None">>

\* The items drawn.
Items == 1..Len(AttrKinds)

\* getattr(item, name, None): a string and a mapping have none of the
\* attributes the fields name; of an object, a collection attribute holds
\* what AttrKinds says and every other attribute is set on every second
\* item, alternating from one field to the next.
getattr(x, res, name) ==
    IF x.kind # "object" THEN PyNone
    ELSE LET i == x.v[1]
             fs == Fields(res)
             k == CHOOSE n \in 1..Len(fs) : fs[n].name = name
             kind == AttrKinds[((i + Len(AttrKinds) - 1) % Len(AttrKinds)) + 1]
         IN  IF fs[k].collection
             THEN CASE kind = "object" -> Obj(7)
                    [] kind = "string" -> Str("ab")
                    [] kind = "sequence" -> PySeq(<<Obj(8), Obj(7)>>)
                    [] kind = "empty" -> PySeq(<<>>)
                    [] OTHER -> PyNone
             ELSE IF (i + k) % 2 = 0
                  THEN (IF fs[k].relation = NoRelation THEN Str(name)
                        ELSE Obj(9))
                  ELSE PyNone

\* The characters of a string, in order.
chars(s) == IF s = "ab" THEN <<"a", "b">> ELSE <<s>>

\* iter(dict): a dict yields its keys in an order the interpreter chooses.
dict_iteration(keys) ==
    {ks \in [1..Cardinality(keys) -> keys] :
        \A i, j \in 1..Cardinality(keys) : i # j => ks[i] # ks[j]}

\* The keys of a mapping handed to prepare.
MappingKeys == {"id", "text"}

\* for x in obj: the sequences iteration may yield; none when obj cannot be
\* iterated (TypeError).
iter(x) ==
    CASE x.kind = "sequence" -> {x.v}
      [] x.kind = "string" ->
           {[i \in 1..Len(chars(x.v[1])) |-> Str(chars(x.v[1])[i])]}
      [] x.kind = "mapping" ->
           {[i \in 1..Len(ks) |-> Str(ks[i])] : ks \in dict_iteration(MappingKeys)}
      [] OTHER -> {}

\* Resource.reverse(item): None for None, else the URI of the item.
Resource_reverse(res, x) ==
    IF x.kind = "None" THEN PyNone ELSE [kind |-> "uri", v |-> <<res, x>>]

\* Resource.relation_prepare: value.all() fails on everything drawn; the
\* value is iterated and each element reversed, whatever the value is, and
\* reversed as one only when iteration raises TypeError.
Resource_relation_prepare(val, rel) ==
    CASE val.kind = "sequence" ->
           PySeq([i \in 1..Len(val.v) |-> Resource_reverse(rel.resource, val.v[i])])
      [] val.kind = "string" ->
           PySeq([i \in 1..Len(chars(val.v[1])) |->
                     Resource_reverse(rel.resource, Str(chars(val.v[1])[i]))])
      [] val.kind \in {"None", "object"} -> Resource_reverse(rel.resource, val)

\* isinstance(value, basestring) or not isinstance(value, Sequence)
not_a_sequence(val) == val.kind # "sequence"

\* The value item_prepare sets for a field: the attribute, through
\* relation_prepare if the field has a relation, made a sequence if the
\* field is a collection.  No prepare_FOO is defined, no attribute is
\* callable and the fields declare no parse of their own.
prepared_value(f, x) ==
    LET attr == getattr(x, resource, f.name)
        related == IF f.relation # NoRelation
                   THEN Resource_relation_prepare(attr, f.relation)
                   ELSE attr
    IN  IF ~f.collection THEN related
        ELSE IF related.kind = "None" THEN PySeq(<<>>)
        ELSE IF not_a_sequence(related) THEN PySeq(<<related>>)
        ELSE related

\* obj[k] = v on an OrderedDict: a new key goes last, a key already there
\* keeps its place.
od_set(od, k, v) ==
    IF \E i \in 1..Len(od) : od[i][1] = k
    THEN [i \in 1..Len(od) |-> IF od[i][1] = k THEN <<k, v>> ELSE od[i]]
    ELSE Append(od, <<k, v>>)

\* k in obj
od_has(od, k) == \E i \in 1..Len(od) : od[i][1] = k

\* obj[k]
od_get(od, k) == od[CHOOSE i \in 1..Len(od) : od[i][1] = k][2]

\* for name, field in self.fields.iteritems(): ...
RECURSIVE fields_loop(_, _, _)
fields_loop(fs, x, od) ==
    IF fs = <<>> THEN od
    ELSE IF ~Head(fs).visible THEN fields_loop(Tail(fs), x, od)
    ELSE fields_loop(Tail(fs), x,
                     od_set(od, Head(fs).name, prepared_value(Head(fs), x)))

\* Resource.item_prepare: the URI is set under self.resource_uri before
\* anything else, whatever self.resource_uri is.
Resource_item_prepare(x) ==
    OrderedDict(fields_loop(Fields(resource), x,
                            << <<resource_uri, Resource_reverse(resource, x)>> >>))

\* Resource.prepare: whatever can be iterated is prepared element by
\* element; the rest is prepared as one item, of which the first component
\* (kept in path) selects an entry.
Resource_prepare(x) ==
    LET one == Resource_item_prepare(x) IN
    IF iter(x) # {}
    THEN {[kind |-> "return",
           value |-> PySeq([i \in 1..Len(xs) |-> Resource_item_prepare(xs[i])])] :
             xs \in iter(x)}
    ELSE IF no_path(path) \/ path[1] = ""
    THEN {[kind |-> "return", value |-> one]}
    ELSE IF od_has(one.v, path[1])
    THEN {[kind |-> "return", value |-> od_get(one.v, path[1])]}
    ELSE {[kind |-> "KeyError", value |-> one]}

\* Resource.process: if response is not None: return self.prepare(response)
resource_prepare ==
    /\ cls = "Resource" /\ pc = "prepare"
    /\ IF data.kind # "None"
       THEN /\ steps' = Append(steps, "prepare")
            /\ \E out \in Resource_prepare(value(data)) :
                  IF out.kind = "KeyError"
                  THEN Crash("KeyError") /\ data' = data
                  ELSE /\ data' = [kind |-> "prepared", items |-> data.items,
                                   of |-> data.kind, body |-> out.value]
                       /\ pc' = "make_response"
                       /\ raised' = raised
       ELSE /\ pc' = "make_response"
            /\ UNCHANGED <<data, steps, raised>>
    /\ UNCHANGED <<decoder, confVars, selfVars, request, authVars, method, function,
                   encoder, status, response, invoked>>

----------------------------------------------------------------------------
(* item_prepare on its own.                                                *)

\* BaseResource.item_prepare applied to one item: obj is a plain dict,
\* which lists its keys in an order the interpreter chooses.
apply_item_prepare ==
    /\ cls = "BaseResource" /\ pc = "item_prepare"
    /\ LET out == item_prepare(IF data.kind = "None" THEN 0 ELSE data.items[1]) IN
       IF out.kind = "NotFound"
       THEN Raise(Error("NotFound")) /\ data' = data
       ELSE /\ \E ks \in dict_iteration(IF out.value.kind = "mapping"
                                        THEN DOMAIN out.value.v ELSE {}) :
                  data' = [kind |-> "prepared", items |-> data.items,
                           of |-> data.kind, body |-> out.value, keys |-> ks]
            /\ pc' = "done"
            /\ raised' = raised
    /\ UNCHANGED <<decoder, confVars, selfVars, request, authVars, method, function,
                   encoder, status, response, steps, invoked>>

\* Resource.item_prepare applied to one item: obj is an OrderedDict, which
\* lists its keys in the order they were first set.
apply_Resource_item_prepare ==
    /\ cls = "Resource" /\ pc = "item_prepare"
    /\ LET obj == Resource_item_prepare(value(data)) IN
       data' = [kind |-> "prepared", items |-> data.items, of |-> data.kind,
                body |-> obj,
                keys |-> [i \in 1..Len(obj.v) |-> obj.v[i][1]]]
    /\ pc' = "done"
    /\ UNCHANGED <<decoder, confVars, selfVars, request, authVars, method, function,
                   encoder, status, raised, response, steps, invoked>>

\* Resource.view: encode the content (if any) and return the response
view_respond ==
    /\ cls = "Resource" /\ pc = "make_response"
    /\ steps' = Append(steps, "make_response")
    /\ response' = IF data.kind = "None"
                   THEN [NoResponse EXCEPT !.status = status]
                   ELSE [NoResponse EXCEPT !.status = status,
                                           !.content = data,
                                           !.content_type = Mimetypes[encoder],
                                           !.encoder = encoder]
    /\ pc' = "done"
    /\ UNCHANGED <<decoder, confVars, selfVars, request, authVars, method, function,
                   encoder, data, status, raised, invoked>>

\* Resource.view: except exceptions.Error as ex:
\* return ex.encode(encoder or cls.default_encoder)
resource_except_Error ==
    /\ cls = "Resource" /\ pc = "except_Error"
    /\ response' = [status |-> error_status(raised.kind),
                    content |-> raised,
                    content_type |-> None,
                    allow |-> raised.allow,
                    encoder |-> IF encoder # None THEN encoder
                                ELSE "default"]
    /\ pc' = "done"
    /\ UNCHANGED <<decoder, confVars, selfVars, request, authVars, method, function,
                   encoder, data, status, raised, steps, invoked>>

\* Resource.view: except BaseException: re-raised when settings.DEBUG, a
\* bare 500 otherwise.
resource_except_BaseException ==
    /\ cls = "Resource" /\ pc = "except_BaseException"
    /\ \E DEBUG \in BOOLEAN :
          IF DEBUG
          THEN response' = response /\ pc' = "escaped"
          ELSE response' = [NoResponse EXCEPT !.status = 500] /\ pc' = "done"
    /\ UNCHANGED <<decoder, confVars, selfVars, request, authVars, method, function,
                   encoder, data, status, raised, steps, invoked>>

----------------------------------------------------------------------------
(* armet.utils (src/armet/utils.py).                                       *)

\* A Python string as the sequence of its characters.
Text(s) ==
    CASE s = "/" -> <<"/">>
      [] s = "1" -> <<"1">>
      [] s = "bar" -> <<"b", "a", "r">>
      [] s = "test" -> <<"t", "e", "s", "t">>
      [] s = "unknown" -> <<"u", "n", "k", "n", "o", "w", "n">>
      [] s = "-resource" -> <<"-", "r", "e", "s", "o", "u", "r", "c", "e">>
      [] s = "Bar" -> <<"B", "a", "r">>
      [] s = "FooBar" -> <<"F", "o", "o", "B", "a", "r">>
      [] s = "foo_resource" ->
           <<"f", "o", "o", "_", "r", "e", "s", "o", "u", "r", "c", "e">>
      [] s = "FooResource" ->
           <<"F", "o", "o", "R", "e", "s", "o", "u", "r", "c", "e">>

\* str.isupper of one character
isupper(c) == c \in {"B", "F", "R"}

\* dasherize: the loop over the characters of text
RECURSIVE dasherize_loop(_)
dasherize_loop(text) ==
    IF text = <<>> THEN <<>>
    ELSE LET item == Head(text) IN
         (IF isupper(item) THEN <<"-", lower(item)>>
          ELSE IF item = "_" THEN <<"-">>
          ELSE <<item>>) \o dasherize_loop(Tail(text))

\* dasherize(text)
dasherize(text) ==
    LET result == dasherize_loop(text) IN
    IF result[1] = "-" THEN Tail(result) ELSE result

\* str.endswith
endswith(s, suffix) ==
    /\ Len(s) >= Len(suffix)
    /\ SubSeq(s, Len(s) - Len(suffix) + 1, Len(s)) = suffix

\* merge_headers: the loop over the chained entries, exist being the names
\* met so far
RECURSIVE merge_headers_loop(_, _)
merge_headers_loop(entries, exist) ==
    IF entries = <<>> THEN <<>>
    ELSE LET entry == Head(entries) IN
         IF entry[1] \in exist
         THEN merge_headers_loop(Tail(entries), exist)
         ELSE <<entry>> \o merge_headers_loop(Tail(entries),
                                              exist \cup {entry[1]})

\* itertools.chain.from_iterable(headers)
RECURSIVE chain_from_iterable(_)
chain_from_iterable(lists) ==
    IF lists = <<>> THEN <<>>
    ELSE Head(lists) \o chain_from_iterable(Tail(lists))

\* merge_headers(*headers)
merge_headers(headers) ==
    merge_headers_loop(chain_from_iterable(headers), {})

\* merge_headers applied to the header lists held in data.
apply_merge_headers ==
    /\ cls = "utils" /\ pc = "merge_headers"
    /\ data' = [kind |-> "merged", of |-> data.items,
                items |-> merge_headers(data.items)]
    /\ pc' = "done"
    /\ UNCHANGED <<confVars, selfVars, request, authVars, method, function,
                   encoder, decoder, status, raised, response, steps, invoked>>

----------------------------------------------------------------------------
(* armet.Api (src/armet/api.py).                                           *)

\* Most handlers registered with an Api.
MaxRegistered == 2

\* No explicit name / no name attribute / no slug.
NoName == <<>>

\* http.Request(environ), as far as the Api reads it.
ApiRequest(verb, path_info, accept, content_type, has_data) ==
    [method |-> verb, path |-> path_info, accept |-> accept,
     content_type |-> content_type, data |-> has_data]

\* http.Response()
ApiResponse == [status_code |-> 200, Location |-> NoName, data |-> None]

\* Api.reroute
reroute(req, resp) ==
    [resp EXCEPT !.Location = req.path \o Text("/"),
                 !.status_code = IF req.method # "GET" THEN 301 ELSE 307]

\* The name register files the handler under.
register_name(handler, name) ==
    IF name = NoName
    THEN LET dashed == dasherize(handler.class_name) IN
         IF endswith(dashed, Text("-resource"))
         THEN SubSeq(dashed, 1, Len(dashed) - 9)
         ELSE dashed
    ELSE name

\* The resource classes drawn: the name of the class, its `name` attribute
\* and what its read does.
Handlers ==
    {[class_name |-> Text("FooResource"), name |-> Text("bar"), read |-> "data"],
     [class_name |-> Text("FooResource"), name |-> NoName, read |-> "None"],
     [class_name |-> Text("FooBar"), name |-> NoName, read |-> "Exception"],
     [class_name |-> Text("foo_resource"), name |-> NoName, read |-> "Forbidden"]}

NoHandler == [class_name |-> NoName, name |-> NoName, read |-> "None"]

\* Api.register(handler, name=name)
register ==
    /\ pc = "api" /\ Len(registered) < MaxRegistered
    /\ \E handler \in Handlers, name \in {NoName, Text("test")} :
          /\ _registry' = [k \in DOMAIN _registry \cup {register_name(handler, name)} |->
                              IF k = register_name(handler, name) THEN handler
                              ELSE _registry[k]]
          /\ registered' = Append(registered, [handler |-> handler, name |-> name])
    /\ UNCHANGED <<cls, http_list_allowed_methods, http_detail_allowed_methods,
                   list_allowed_operations, detail_allowed_operations, encoders,
                   allowed_encoders, default_encoder, decoders, authentication,
                   objects, resource_uri, trailing_slash, _fields,
                   _prefetch_related_paths, threads, map, selfVars, request,
                   pc, authVars, method, function, encoder, decoder, data,
                   status, raised, response, steps, invoked>>

\* What an Api action leaves alone besides the request cycle.
ApiUnchanged ==
    UNCHANGED <<confVars, selfVars, request, authVars, method, encoder,
                decoder, status, invoked>>

\* An exception of armet.http.exceptions is raised inside route.
ApiRaise(kind) == pc' = "except_Base" /\ raised' = Error(kind)

\* Any other exception is raised: __call__ has no clause for it.
ApiEscape(kind) == pc' = "escaped" /\ raised' = Error(kind)

\* Api.__call__ up to the call of route.
api_call ==
    /\ pc = "api"
    /\ IF ~trailing_slash
       THEN /\ response' = reroute(request, ApiResponse)
            /\ pc' = "done"
            /\ steps' = steps
       ELSE /\ response' = ApiResponse
            /\ pc' = "route"
            /\ steps' = Append(steps, "setup")
    /\ UNCHANGED <<function, data, raised>>
    /\ ApiUnchanged

\* str.split("/")
RECURSIVE split(_)
split(text) ==
    IF text = <<>> THEN << <<>> >>
    ELSE LET rest == split(Tail(text)) IN
         IF Head(text) = "/" THEN << <<>> >> \o rest
         ELSE << <<Head(text)>> \o rest[1] >> \o Tail(rest)

\* list(filter(None, path.split("/")))
segments_of(path_info) == SelectSeq(split(path_info), LAMBDA x : x # <<>>)

\* What resource.read() of a handler does: return, or raise.
read_raises(handler) == handler.read \notin {"data", "None"}

\* Api.get_resource: the while loop over the leading (name, slug) pairs
RECURSIVE get_resource_loop(_, _)
get_resource_loop(segments, path_info) ==
    IF Len(segments) > 2
    THEN IF path_info \notin DOMAIN _registry
         THEN [kind |-> "KeyError", handler |-> NoHandler, slug |-> NoName]
         ELSE IF read_raises(_registry[path_info])
         THEN [kind |-> _registry[path_info].read, handler |-> NoHandler,
               slug |-> NoName]
         ELSE get_resource_loop(Tail(Tail(segments)), path_info)
    ELSE IF segments = <<>>
    THEN [kind |-> "IndexError", handler |-> NoHandler, slug |-> NoName]
    ELSE IF segments[1] \notin DOMAIN _registry
    THEN [kind |-> "NotFound", handler |-> NoHandler, slug |-> NoName]
    ELSE [kind |-> "return", handler |-> _registry[segments[1]],
          slug |-> IF Len(segments) > 1 THEN segments[2] ELSE NoName]

\* Api.get_resource(path)
get_resource(path_info) == get_resource_loop(segments_of(path_info), path_info)

\* The attributes of an Api by the name getattr finds them under.
ApiAttributes ==
    {"reroute", "setup", "teardown", "register", "decode", "encode",
     "route", "get", "get_resource", "trailing_slash", "_registry"}

\* Api.route up to the call of the verb handler: the path "/", decode (the
\* decoders are external: one is found for the content type, or none),
\* get_resource, and the lookup of the verb among the attributes.
api_route ==
    /\ pc = "route"
    /\ steps' = Append(steps, "route")
    /\ IF request.path = Text("/")
       THEN ApiRaise("NotFound") /\ UNCHANGED <<function, data>>
       ELSE IF request.data /\ request.content_type = NoHeader
       THEN ApiRaise("UnsupportedMediaType") /\ UNCHANGED <<function, data>>
       ELSE \/ /\ request.data
               /\ ApiRaise("UnsupportedMediaType")
               /\ UNCHANGED <<function, data>>
            \/ LET found == get_resource(request.path) IN
               IF found.kind = "NotFound"
               THEN ApiRaise("NotFound") /\ UNCHANGED <<function, data>>
               ELSE IF found.kind = "Forbidden"
               THEN ApiRaise("Forbidden") /\ UNCHANGED <<function, data>>
               ELSE IF found.kind # "return"
               THEN ApiEscape(found.kind) /\ UNCHANGED <<function, data>>
               ELSE IF lower(request.method) \notin ApiAttributes
               THEN ApiRaise("MethodNotAllowed") /\ UNCHANGED <<function, data>>
               ELSE /\ function' = lower(request.method)
                    /\ data' = [kind |-> "resource", handler |-> found.handler,
                                slug |-> found.slug]
                    /\ pc' = "verb"
                    /\ raised' = raised
    /\ UNCHANGED response
    /\ ApiUnchanged

\* response_data = route(resource, request_data), route being Api.get:
\* items = resource.read(), then prepare_item or prepare of the resource
\* (external).  Whatever attribute getattr found is called with
\* (resource, request_data): route and reroute take two arguments and fail
\* on request.path, the resource standing for the request; the other
\* methods do not take two arguments and the attributes that are no methods
\* cannot be called.
api_get ==
    /\ pc = "verb"
    /\ steps' = Append(steps, "verb")
    /\ IF function \in {"route", "reroute"}
       THEN ApiEscape("AttributeError") /\ data' = data
       ELSE IF function # "get"
       THEN ApiEscape("TypeError") /\ data' = data
       ELSE IF data.handler.read = "Exception"
       THEN ApiEscape("Exception") /\ data' = data
       ELSE IF read_raises(data.handler)
       THEN ApiRaise(data.handler.read) /\ data' = data
       ELSE /\ data' = [kind |-> "prepared", handler |-> data.handler,
                        slug |-> data.slug, of |-> data.handler.read]
            /\ pc' = "encode"
            /\ raised' = raised
    /\ UNCHANGED <<function, response>>
    /\ ApiUnchanged

\* self.encode(request, response, response_data) and
\* response.status_code = 200: the encoders are external, one is found for
\* the media range or none.
api_encode ==
    /\ pc = "encode"
    /\ steps' = Append(steps, "encode")
    /\ \/ /\ response' = [response EXCEPT !.data = "encoded",
                                          !.status_code = 200]
          /\ pc' = "teardown"
          /\ raised' = raised
       \/ /\ request.accept \notin {NoHeader, "*/*", "application/json"}
          /\ ApiRaise("NotAcceptable")
          /\ response' = response
    /\ UNCHANGED <<function, data>>
    /\ ApiUnchanged

\* Api.__call__: except exceptions.Base as ex
api_except_Base ==
    /\ pc = "except_Base"
    /\ response' = [response EXCEPT !.status_code = error_status(raised.kind),
                                    !.data = ""]
    /\ pc' = "teardown"
    /\ UNCHANGED <<function, data, raised, steps>>
    /\ ApiUnchanged

\* Api.__call__: self.teardown(); return response(environ, start_response)
api_teardown ==
    /\ pc = "teardown"
    /\ steps' = Append(steps, "teardown")
    /\ pc' = "done"
    /\ UNCHANGED <<function, data, raised, response>>
    /\ ApiUnchanged

----------------------------------------------------------------------------
(* BaseModel: the paths to prefetch.                                       *)

\* Most fields a generated model resource declares.
MaxFields == 2

\* Deepest nesting of calls followed: the interpreter gives up beyond its
\* recursion limit.
MaxDepth == 6

\* The model resources (subclasses of BaseModel) and their models.
ModelResources == DOMAIN _fields

\* field.path: the segments of the attribute the field reads.
field_path(field) == <<field.name>>

\* str(field.path), as '{}__{}'.format(prefix, path) renders a list.
str_of_list(p) ==
    CASE p = <<"a1">> -> "['a1']"
      [] p = <<"a2">> -> "['a2']"
      [] p = <<"a3">> -> "['a3']"
      [] p = <<"b1">> -> "['b1']"
      [] p = <<"b2">> -> "['b2']"
      [] p = <<"b3">> -> "['b3']"
      [] p = <<"author">> -> "['author']"
      [] p = <<"choices">> -> "['choices']"
      [] p = <<"poll">> -> "['poll']"
      [] p = <<"polls">> -> "['polls']"
      [] p = <<"voters">> -> "['voters']"
      [] p = <<"votes">> -> "['votes']"
      [] OTHER -> "[...]"

\* The prefix argument: None, a lookup given as a string, or the path of a
\* field (a list).
NoPrefix == [kind |-> "None", v |-> <<>>]
StrPrefix(segs) == [kind |-> "str", v |-> segs]
ListPrefix(p) == [kind |-> "list", v |-> p]

\* path = '__'.join(field_path[:index]) and, if prefix,
\* '{}__{}'.format(prefix, path): the lookup as its segments between "__".
lookup_path(prefix, fpath, index) ==
    CASE prefix.kind = "None" -> SubSeq(fpath, 1, index)
      [] prefix.kind = "str" -> prefix.v \o SubSeq(fpath, 1, index)
      [] prefix.kind = "list" -> <<str_of_list(prefix.v)>> \o SubSeq(fpath, 1, index)

\* The field of model resource res that reads attribute `name`.
model_field(res, name) ==
    IF res \in ModelResources
       /\ \E i \in 1..Len(_fields[res]) : _fields[res][i].name = name
    THEN _fields[res][CHOOSE i \in 1..Len(_fields[res]) :
                         _fields[res][i].name = name]
    ELSE NoField

\* queryset.prefetch_related(path)[0] on a queryset of the model of res that
\* is not empty: it succeeds when every segment names a relation of the
\* model it is reached on, and raises AttributeError or ValueError otherwise.
RECURSIVE prefetchable(_, _)
prefetchable(res, segs) ==
    IF segs = <<>> THEN TRUE
    ELSE LET f == model_field(res, segs[1]) IN
         /\ f # NoField
         /\ f.relation # NoRelation
         /\ prefetchable(f.relation.resource, Tail(segs))

\* The place of a segment in the order of Python strings.
rank(seg) ==
    CASE seg = "[...]" -> 1
      [] seg = "['a1']" -> 2
      [] seg = "['a2']" -> 3
      [] seg = "['a3']" -> 4
      [] seg = "['author']" -> 5
      [] seg = "['b1']" -> 6
      [] seg = "['b2']" -> 7
      [] seg = "['b3']" -> 8
      [] seg = "['choices']" -> 9
      [] seg = "['poll']" -> 10
      [] seg = "['polls']" -> 11
      [] seg = "['voters']" -> 12
      [] seg = "['votes']" -> 13
      [] seg = "a1" -> 14
      [] seg = "a2" -> 15
      [] seg = "a3" -> 16
      [] seg = "author" -> 17
      [] seg = "b1" -> 18
      [] seg = "b2" -> 19
      [] seg = "b3" -> 20
      [] seg = "choices" -> 21
      [] seg = "name" -> 22
      [] seg = "password" -> 23
      [] seg = "poll" -> 24
      [] seg = "polls" -> 25
      [] seg = "question" -> 26
      [] seg = "secret" -> 27
      [] seg = "tags" -> 28
      [] seg = "text" -> 29
      [] seg = "voters" -> 30
      [] seg = "votes" -> 31
      [] OTHER -> 32

\* a < b for two lookups, as Python compares the strings (and the lists of
\* segments): by the first segment that differs, a prefix being the less.
RECURSIVE less(_, _)
less(a, b) ==
    IF b = <<>> THEN FALSE
    ELSE IF a = <<>> THEN TRUE
    ELSE IF a[1] = b[1] THEN less(Tail(a), Tail(b))
    ELSE rank(a[1]) < rank(b[1])

\* sorted(set(xs), reverse=True) of a set of lookups.
RECURSIVE sorted_reverse(_)
sorted_reverse(S) ==
    IF S = {} THEN <<>>
    ELSE LET top == CHOOSE x \in S : \A y \in S \ {x} : less(y, x)
         IN  <<top>> \o sorted_reverse(S \ {top})

\* The elements of a list as a set.
set(xs) == {xs[i] : i \in 1..Len(xs)}

\* field_paths: the paths of the visible fields, sorted in reverse.
field_paths(res) ==
    sorted_reverse({field_path(_fields[res][i]) :
                      i \in {j \in 1..Len(_fields[res]) :
                                _fields[res][j].visible}})

\* `for index in range(len(field_path), 0, -1)`: the first lookup that can
\* be prefetched on the queryset (of the model of qs), from the whole path
\* down, as a list of one element; the empty list when none can.
RECURSIVE try_prefetch(_, _, _, _)
try_prefetch(qs, prefix, fpath, index) ==
    IF index = 0 THEN <<>>
    ELSE IF prefetchable(qs, lookup_path(prefix, fpath, index))
    THEN <<lookup_path(prefix, fpath, index)>>
    ELSE try_prefetch(qs, prefix, fpath, index - 1)

\* `for field_path in field_paths`: what the loop appends, from i on.
RECURSIVE own_paths(_, _, _, _)
own_paths(qs, prefix, fpaths, i) ==
    IF i > Len(fpaths) THEN <<>>
    ELSE try_prefetch(qs, prefix, fpaths[i], Len(fpaths[i]))
            \o own_paths(qs, prefix, fpaths, i + 1)

\* `relation and issubclass(relation.resource, BaseModel)`
model_relation(field) ==
    field.relation # NoRelation /\ field.relation.resource \in ModelResources

\* A relation that is never found in the skip list.
never_in_skip(rel, skip) == FALSE

\* `relation in skip`
in_skip(rel, skip) == \E i \in 1..Len(skip) : skip[i] = rel

\* What a call of _build_prefetch_related_paths gives: the list returned,
\* the skip list as the call leaves it, the relations descended into in
\* order, and whether the nesting went beyond MaxDepth.
Built(paths, skip, descended, overflow) ==
    [paths |-> paths, skip |-> skip, descended |-> descended,
     overflow |-> overflow]

\* BaseModel._build_prefetch_related_paths(queryset, prefix, skip) of res,
\* and its loop over the relations from field j on with `prefetched` so far.
RECURSIVE _build_prefetch_related_paths(_, _, _, _, _)
RECURSIVE build_relations(_, _, _, _, _, _, _)
build_relations(res, qs, j, prefetched, skip, descended, depth) ==
    IF j > Len(_fields[res])
    THEN Built(sorted_reverse(set(prefetched)), skip, descended, FALSE)
    ELSE LET field == _fields[res][j] IN
         IF ~model_relation(field) \/ in_skip(field.relation, skip)
         THEN build_relations(res, qs, j + 1, prefetched, skip, descended,
                              depth)
         ELSE LET sub == _build_prefetch_related_paths(
                            field.relation.resource, qs,
                            ListPrefix(field_path(field)),
                            Append(skip, field.relation), depth + 1)
              IN  IF sub.overflow
                  THEN Built(<<>>, sub.skip,
                             <<field.relation>> \o sub.descended, TRUE)
                  ELSE build_relations(res, qs, j + 1,
                                       prefetched \o sub.paths, sub.skip,
                                       descended \o <<field.relation>>
                                                 \o sub.descended,
                                       depth)

_build_prefetch_related_paths(res, qs, prefix, skip, depth) ==
    IF depth > MaxDepth
    THEN Built(<<>>, skip, <<>>, TRUE)
    ELSE build_relations(res, qs, 1,
                         own_paths(qs, prefix, field_paths(res), 1),
                         skip, <<>>, depth)

\* The cache of a class: not yet set (None in flapjack, no key id(cls) in
\* armet), or the list it holds.
NotCached == [set |-> FALSE, v |-> <<>>]
Cached(paths) == [set |-> TRUE, v |-> paths]

\* A call of prefetch_related that has not returned: the class it is called
\* on, its prefix, where it stands, and its position in the loop it is in.
Frame(res, prefix, phase) ==
    [cls |-> res, prefix |-> prefix, phase |-> phase, i |-> 1]

\* What a request has applied to its queryset: nothing yet, or the paths of
\* queryset.prefetch_related(*paths).
NotApplied == [done |-> FALSE, v |-> <<>>]
Applied(paths) == [done |-> TRUE, v |-> paths]

\* A request that calls cls.prefetch_related(queryset, prefix) on resource
\* res with a queryset of `rows` rows of its model.
Thread(res, prefix, rows, phase) ==
    [call |-> [resource |-> res, prefix |-> prefix, rows |-> rows],
     stack |-> <<Frame(res, prefix, phase)>>,
     applied |-> NotApplied,
     raised |-> None]

\* The frame a thread is executing, and the thread with that frame changed.
top(th) == th.stack[Len(th.stack)]

with_top(th, fr) == [th EXCEPT !.stack[Len(th.stack)] = fr]

\* The innermost call returns; the outermost hands back the queryset with
\* `paths` applied.
return(th, paths) ==
    IF Len(th.stack) = 1
    THEN [th EXCEPT !.stack = <<>>, !.applied = Applied(paths)]
    ELSE [th EXCEPT !.stack = SubSeq(th.stack, 1, Len(th.stack) - 1)]

\* A nested call is entered, or the recursion limit is hit.
enter(th, fr) ==
    IF Len(th.stack) >= MaxDepth
    THEN [th EXCEPT !.stack = <<>>, !.raised = "RecursionError"]
    ELSE [th EXCEPT !.stack = Append(th.stack, fr)]

Stepped(cache, th) == [cache |-> cache, th |-> th]

\* flapjack BaseModel.prefetch_related, one step of thread th: each step
\* reads or writes cls._prefetch_related_paths once.
flapjack_prefetch_step(cache, th) ==
    LET fr == top(th)
        c == fr.cls
        qs == th.call.resource
        fpaths == field_paths(c)
    IN
    CASE fr.phase = "init" ->
           \* if cls._prefetch_related_paths is None: ... = []
           Stepped(IF cache[c].set THEN cache
                   ELSE [cache EXCEPT ![c] = Cached(<<>>)],
                   with_top(th, [fr EXCEPT !.phase = "test"]))
      [] fr.phase = "test" ->
           \* if not cls._prefetch_related_paths and len(queryset) >= 1
           Stepped(cache,
                   with_top(th, [fr EXCEPT !.phase =
                       IF cache[c].v = <<>> /\ th.call.rows >= 1
                       THEN "own" ELSE "apply"]))
      [] fr.phase = "own" ->
           \* for field_path in field_paths: ... .append(path)
           IF fr.i > Len(fpaths)
           THEN Stepped(cache,
                        with_top(th, [fr EXCEPT !.phase = "rel", !.i = 1]))
           ELSE Stepped([cache EXCEPT ![c].v =
                            @ \o try_prefetch(qs, fr.prefix, fpaths[fr.i],
                                              Len(fpaths[fr.i]))],
                        with_top(th, [fr EXCEPT !.i = @ + 1]))
      [] fr.phase = "rel" ->
           \* for name, field in six.iteritems(cls._fields):
           \*     field.relation[0].prefetch_related(queryset,
           \*                                        prefix=field.path)
           IF fr.i > Len(_fields[c])
           THEN Stepped(cache, with_top(th, [fr EXCEPT !.phase = "sort"]))
           ELSE IF ~model_relation(_fields[c][fr.i])
           THEN Stepped(cache, with_top(th, [fr EXCEPT !.i = @ + 1]))
           ELSE Stepped(cache,
                        enter(with_top(th, [fr EXCEPT !.phase = "extend"]),
                              Frame(_fields[c][fr.i].relation.resource,
                                    ListPrefix(field_path(_fields[c][fr.i])),
                                    "init")))
      [] fr.phase = "extend" ->
           \* cls._prefetch_related_paths.extend(
           \*     field.relation[0]._prefetch_related_paths)
           Stepped([cache EXCEPT ![c].v =
                       @ \o cache[_fields[c][fr.i].relation.resource].v],
                   with_top(th, [fr EXCEPT !.phase = "rel", !.i = @ + 1]))
      [] fr.phase = "sort" ->
           \* cls._prefetch_related_paths = sorted(set(...), reverse=True)
           Stepped([cache EXCEPT ![c].v = sorted_reverse(set(@))],
                   with_top(th, [fr EXCEPT !.phase = "apply"]))
      [] fr.phase = "apply" ->
           \* return queryset.prefetch_related(*cls._prefetch_related_paths)
           Stepped(cache, return(th, cache[c].v))

\* armet BaseModel.prefetch_related, one step of thread th; the call of
\* _build_prefetch_related_paths works on locals only.
armet_prefetch_step(cache, th) ==
    LET fr == top(th)
        c == fr.cls
    IN
    CASE fr.phase = "test" ->
           \* if id(cls) not in cache and len(queryset) >= 1
           Stepped(cache,
                   with_top(th, [fr EXCEPT !.phase =
                       IF ~cache[c].set /\ th.call.rows >= 1
                       THEN "store" ELSE "apply"]))
      [] fr.phase = "store" ->
           \* cache[id(cls)] = prefetch(queryset, prefix)
           LET built == _build_prefetch_related_paths(c, c, fr.prefix, <<>>, 1)
           IN  IF built.overflow
               THEN Stepped(cache, [th EXCEPT !.stack = <<>>,
                                              !.raised = "RecursionError"])
               ELSE Stepped([cache EXCEPT ![c] = Cached(built.paths)],
                            with_top(th, [fr EXCEPT !.phase = "apply"]))
      [] fr.phase = "apply" ->
           \* if id(cls) in cache: return queryset.prefetch_related(
           \*     *cache[id(cls)]); else return queryset
           Stepped(cache, return(th, cache[c].v))

\* One step of prefetch_related of the class library in use.
prefetch_step(cache, th) ==
    IF cls = "armet.BaseModel" THEN armet_prefetch_step(cache, th)
    ELSE flapjack_prefetch_step(cache, th)

\* A request run from where it stands to its return with no other request
\* in between: the caches and the request as it ends.
RECURSIVE run(_, _)
run(cache, th) ==
    IF th.stack = <<>> THEN Stepped(cache, th)
    ELSE run(prefetch_step(cache, th).cache, prefetch_step(cache, th).th)

\* What the steps of a thread leave alone.
PrefetchUnchanged ==
    UNCHANGED <<cls, http_list_allowed_methods, http_detail_allowed_methods,
                list_allowed_operations, detail_allowed_operations, encoders,
                allowed_encoders, default_encoder, decoders, authentication,
                objects, resource_uri, _registry, trailing_slash, registered,
                _fields, map, selfVars, request, pc, authVars, method,
                function, encoder, decoder, data, status, raised, response,
                steps, invoked>>

\* Some request takes its next step of flapjack's prefetch_related.
flapjack_prefetch_related ==
    /\ cls = "flapjack.BaseModel" /\ pc = "prefetch"
    /\ \E t \in DOMAIN threads :
          /\ threads[t].stack # <<>>
          /\ LET next == flapjack_prefetch_step(_prefetch_related_paths,
                                                threads[t])
             IN  /\ _prefetch_related_paths' = next.cache
                 /\ threads' = [threads EXCEPT ![t] = next.th]
    /\ PrefetchUnchanged

\* Some request takes its next step of armet's prefetch_related.
armet_prefetch_related ==
    /\ cls = "armet.BaseModel" /\ pc = "prefetch"
    /\ \E t \in DOMAIN threads :
          /\ threads[t].stack # <<>>
          /\ LET next == armet_prefetch_step(_prefetch_related_paths,
                                             threads[t])
             IN  /\ _prefetch_related_paths' = next.cache
                 /\ threads' = [threads EXCEPT ![t] = next.th]
    /\ PrefetchUnchanged

\* _build_prefetch_related_paths on its own.
build ==
    /\ cls = "armet.BaseModel" /\ pc = "build"
    /\ data' = [kind |-> "built", items |-> <<>>,
                built |-> _build_prefetch_related_paths(
                             threads[1].call.resource,
                             threads[1].call.resource,
                             threads[1].call.prefix, <<>>, 1)]
    /\ pc' = "done"
    /\ UNCHANGED <<confVars, selfVars, request, authVars, method, function,
                   encoder, decoder, status, raised, response, steps,
                   invoked>>

----------------------------------------------------------------------------
(* armet.registry.Registry (src/armet/registry.py).                        *)

\* Most calls made on one Registry.
MaxCalls == 3

\* The keys, values and objects drawn.
Keys == {"name", "mime"}
Values == {"a", "b"}
Objects == {"x", "y"}

\* A dict as a function; the empty dict.
EmptyDict == [k \in {} |-> None]

\* d[k] = v on a dict.
setitem(d, k, v) == [x \in DOMAIN d \cup {k} |-> IF x = k THEN v ELSE d[x]]

\* self.map[key] of the defaultdict(dict): a key that is missing is
\* inserted with an empty dict.
defaultdict_getitem(m, key) ==
    IF key \in DOMAIN m THEN m ELSE setitem(m, key, EmptyDict)

\* A keyword value of register: a string, or an iterable that is no string
\* with its elements.
StrValue(v) == [kind |-> "str", v |-> <<v>>]
TupleValue(vs) == [kind |-> "tuple", v |-> vs]

\* `for val in value: self.map[key][val] = obj`, from element i on.
RECURSIVE set_values(_, _, _, _, _)
set_values(m, key, vals, i, obj) ==
    IF i > Len(vals) THEN m
    ELSE set_values(setitem(m, key, setitem(defaultdict_getitem(m, key)[key],
                                            vals[i], obj)),
                    key, vals, i + 1, obj)

\* `for key, value in kwargs.items()` of register's callback, over the keys
\* not yet handled.
RECURSIVE callback(_, _, _, _)
callback(m, obj, kwargs, keys) ==
    IF keys = {} THEN m
    ELSE LET key == CHOOSE k \in keys : TRUE
         IN  callback(set_values(m, key, kwargs[key].v, 1, obj), obj, kwargs,
                      keys \ {key})

\* Registry.register(obj, **kwargs): with no object the callback is handed
\* back for use as a decorator and nothing is registered yet.
Registry_register(m, obj, kwargs) ==
    IF obj = None THEN m ELSE callback(m, obj, kwargs, DOMAIN kwargs)

\* What find and rfind return: an object, None, a list of values, or the
\* exception raised.
Returned(kind, v) == [kind |-> kind, v |-> v]

\* Registry.find(**kwargs): the map as the call leaves it and the result.
Registry_find(m, kwargs) ==
    IF Cardinality(DOMAIN kwargs) > 1
    THEN [map |-> m, result |-> Returned("TypeError", {})]
    ELSE IF DOMAIN kwargs = {}
    THEN [map |-> m, result |-> Returned("None", {})]
    ELSE LET key == CHOOSE k \in DOMAIN kwargs : TRUE
             touched == defaultdict_getitem(m, key)
         IN  IF kwargs[key] \in DOMAIN touched[key]
             THEN [map |-> touched,
                   result |-> Returned("object", {touched[key][kwargs[key]]})]
             ELSE [map |-> touched, result |-> Returned("None", {})]

\* Registry.rfind(obj, key, limit): the values obj is registered for under
\* key; with a limit, that many of them, in the order the dict yields them.
Registry_rfind(m, obj, key, limit) ==
    LET touched == defaultdict_getitem(m, key)
        all == {v \in DOMAIN touched[key] : touched[key][v] = obj}
    IN  {[map |-> touched, result |-> Returned("values", vs)] :
            vs \in IF limit = 0 \/ Cardinality(all) <= limit
                   THEN {all}
                   ELSE {sub \in SUBSET all : Cardinality(sub) = limit}}

\* The loop of remove for one object: every reference to it is deleted and
\* every table that is empty afterwards is deleted from the map.
remove_object(m, obj) ==
    [k \in {key \in DOMAIN m : \E v \in DOMAIN m[key] : m[key][v] # obj} |->
        [v \in {val \in DOMAIN m[k] : m[k][val] # obj} |-> m[k][v]]]

\* `for obj in args`, from element i on.
RECURSIVE remove_args(_, _, _)
remove_args(m, args, i) ==
    IF i > Len(args) THEN m
    ELSE remove_args(remove_object(m, args[i]), args, i + 1)

\* `for key, value in kwargs.items(): self.remove(self.map[key][value])`,
\* KeyError passed over.
RECURSIVE remove_kwargs(_, _, _)
remove_kwargs(m, kwargs, keys) ==
    IF keys = {} THEN m
    ELSE LET key == CHOOSE k \in keys : TRUE
             touched == defaultdict_getitem(m, key)
         IN  remove_kwargs(IF kwargs[key] \in DOMAIN touched[key]
                           THEN remove_object(touched,
                                              touched[key][kwargs[key]])
                           ELSE touched,
                           kwargs, keys \ {key})

\* Registry.remove(*args, **kwargs)
Registry_remove(m, args, kwargs) ==
    remove_kwargs(remove_args(m, args, 1), kwargs, DOMAIN kwargs)

\* What a call on the Registry leaves alone.
RegistryUnchanged ==
    UNCHANGED <<cls, http_list_allowed_methods, http_detail_allowed_methods,
                list_allowed_operations, detail_allowed_operations, encoders,
                allowed_encoders, default_encoder, decoders, authentication,
                objects, resource_uri, _registry, trailing_slash, registered,
                _fields, _prefetch_related_paths, threads, selfVars, request,
                pc, authVars, method, function, encoder, decoder, status,
                raised, response>>

\* The keyword arguments drawn for find and remove: none, one, or two.
Lookups ==
    {EmptyDict} \cup {[k \in {key} |-> v] : key \in Keys, v \in Values}
       \cup {[k \in Keys |-> "a"]}

\* The keyword arguments drawn for register.
Registrations ==
    UNION {[ks -> {StrValue("a"), StrValue("b"), TupleValue(<<"a", "b">>)}] :
              ks \in SUBSET Keys \ {{}}}

\* A call of register
registry_register ==
    /\ cls = "Registry" /\ pc = "registry" /\ Len(steps) < MaxCalls
    /\ \E obj \in Objects \cup {None}, kwargs \in Registrations :
          /\ map' = Registry_register(map, obj, kwargs)
          /\ invoked' = <<[op |-> "register", obj |-> obj, kwargs |-> kwargs]>>
          /\ data' = Returned("None", {})
    /\ steps' = Append(steps, "register")
    /\ RegistryUnchanged

\* A call of find
registry_find ==
    /\ cls = "Registry" /\ pc = "registry" /\ Len(steps) < MaxCalls
    /\ \E kwargs \in Lookups :
          /\ map' = Registry_find(map, kwargs).map
          /\ data' = Registry_find(map, kwargs).result
          /\ invoked' = <<[op |-> "find", obj |-> None, kwargs |-> kwargs]>>
    /\ steps' = Append(steps, "find")
    /\ RegistryUnchanged

\* A call of rfind
registry_rfind ==
    /\ cls = "Registry" /\ pc = "registry" /\ Len(steps) < MaxCalls
    /\ \E obj \in Objects, key \in Keys, limit \in {0, 1} :
          \E out \in Registry_rfind(map, obj, key, limit) :
             /\ map' = out.map
             /\ data' = out.result
             /\ invoked' = <<[op |-> "rfind", obj |-> obj,
                              kwargs |-> [k \in {key} |-> "a"]]>>
    /\ steps' = Append(steps, "rfind")
    /\ RegistryUnchanged

\* A call of remove
registry_remove ==
    /\ cls = "Registry" /\ pc = "registry" /\ Len(steps) < MaxCalls
    /\ \E args \in SeqUpTo(Objects, 1), kwargs \in Lookups :
          /\ map' = Registry_remove(map, args, kwargs)
          /\ invoked' = <<[op |-> "remove",
                           obj |-> IF args = <<>> THEN None ELSE args[1],
                           kwargs |-> kwargs]>>
          /\ data' = Returned("None", {})
    /\ steps' = Append(steps, "remove")
    /\ RegistryUnchanged

----------------------------------------------------------------------------
(* The requests and configurations drawn.                                  *)

Verbs == {"GET", "POST", "PUT", "DELETE", "PATCH", "BREW"}

Overrides == {NoHeader, "DELETE", "delete"}

\* (http_list_allowed_methods, http_detail_allowed_methods)
MethodConfigs ==
    { << <<"get", "post">>, <<"get", "put", "delete">> >>,
      << <<"get", "post", "put", "delete", "patch">>,
         <<"get", "post", "put", "delete", "patch">> >> }

\* (list_allowed_operations, detail_allowed_operations)
OperationConfigs ==
    { << <<"read", "create", "update", "destroy">>,
         <<"read", "create", "update", "destroy">> >>,
      << <<"read">>, <<"read", "update">> >>,
      << <<"create">>, <<"create", "destroy">> >> }

\* (encoders, allowed_encoders, default_encoder)
EncoderConfigs ==
    { <<Mimetypes, <<"json", "xml">>, "json">>,
      <<Mimetypes, <<"json">>, "json">>,
      <<Mimetypes, <<"xml", "json">>, "xml">>,
      <<Mimetypes, <<"json">>, "xml">>,
      <<[json |-> "application/json"], <<"json", "xml">>, "xml">> }

Formats == {None, "json", "JSON", "xml", "yaml"}

Accepts == {NoHeader, "*/*", " */* ", "application/json", "application/xml",
            "application/*", "text/html"}

Providers == [allow_anonymous : BOOLEAN]

Request(verb, override, accept, content_type, body) ==
    [method |-> verb, override |-> override, accept |-> accept,
     content_type |-> content_type, body |-> body, user |-> None]

\* No Api takes part: the resource is mounted on its own.
NoApi ==
    /\ _registry = <<>>
    /\ trailing_slash = TRUE
    /\ registered = <<>>

\* No model resource is prefetched and no Registry takes part.
NoShared ==
    /\ _fields = <<>>
    /\ _prefetch_related_paths = <<>>
    /\ threads = <<>>
    /\ map = <<>>

\* A resource reached without traversal: no path, no parent.
Untraversed ==
    /\ path = NoPath
    /\ parent = <<>>
    /\ local = FALSE
    /\ resource = "Poll"

\* The variables no request has written yet.
Fresh ==
    /\ auth_i = 1
    /\ consulted = <<>>
    /\ method = None
    /\ function = None
    /\ encoder = None
    /\ decoder = None
    /\ data = NoData
    /\ status = 200
    /\ raised = NoError
    /\ response = NoResponse
    /\ steps = <<>>
    /\ invoked = <<>>

\* A request as view hands it to a freshly constructed resource.
Init ==
    /\ cls \in {"BaseResource", "Resource"}
    /\ slug \in {None, "5"}
    /\ \E verb \in Verbs, override \in Overrides, body \in BOOLEAN,
          accept \in {NoHeader, "application/xml"} :
          \E content_type \in IF body
                              THEN {"application/json", "application/xml"}
                              ELSE {NoHeader} :
             request = Request(verb, override, accept, content_type, body)
    /\ format \in {None, "yaml"}
    /\ \E c \in MethodConfigs :
          /\ http_list_allowed_methods = c[1]
          /\ http_detail_allowed_methods = c[2]
    /\ \E c \in OperationConfigs :
          /\ list_allowed_operations = c[1]
          /\ detail_allowed_operations = c[2]
    /\ encoders = Mimetypes
    /\ allowed_encoders = <<"json", "xml">>
    /\ default_encoder = "json"
    /\ decoders = <<"form", "json">>
    /\ objects = <<>>
    /\ resource_uri = "resource_uri"
    /\ NoApi
    /\ NoShared
    /\ authentication \in IF cls = "BaseResource"
                          THEN SeqUpTo(Providers, MaxChain)
                          ELSE {<<>>}
    /\ pc = IF cls = "BaseResource" THEN "authenticate" ELSE "find_encoder"
    /\ Untraversed
    /\ Fresh

Next ==
    \/ authenticate
    \/ authenticate_else
    \/ dispatch_determine_method
    \/ dispatch_determine_encoder
    \/ dispatch_decode
    \/ dispatch_function
    \/ dispatch_prepare
    \/ dispatch_make_response
    \/ dispatch_except_Error
    \/ view_except_BaseException
    \/ view_find_encoder
    \/ resource_determine_method
    \/ resource_decode
    \/ resource_function
    \/ resource_prepare
    \/ view_respond
    \/ resource_except_Error
    \/ resource_except_BaseException

Spec == Init /\ [][Next]_vars

\* BaseResource._determine_encoder on its own: a request that has passed
\* authenticate and _determine_method, over every format token, Accept
\* header and encoder configuration drawn.
InitEncoder ==
    /\ cls = "BaseResource"
    /\ slug \in {None, "5"}
    /\ \E accept \in Accepts :
          request = [Request("GET", NoHeader, accept, NoHeader, FALSE)
                        EXCEPT !.user = "user"]
    /\ format \in Formats
    /\ http_list_allowed_methods = <<"get", "post">>
    /\ http_detail_allowed_methods = <<"get", "put", "delete">>
    /\ list_allowed_operations = <<"read", "create", "update", "destroy">>
    /\ detail_allowed_operations = <<"read", "create", "update", "destroy">>
    /\ \E c \in EncoderConfigs :
          /\ encoders = c[1]
          /\ allowed_encoders = c[2]
          /\ default_encoder = c[3]
    /\ decoders = <<"form", "json">>
    /\ objects = <<>>
    /\ resource_uri = "resource_uri"
    /\ NoApi
    /\ NoShared
    /\ authentication = <<[allow_anonymous |-> FALSE]>>
    /\ pc = "determine_encoder"
    /\ Untraversed
    /\ auth_i = 1
    /\ consulted = <<[provider |-> 1, user |-> "user"]>>
    /\ method = "get"
    /\ function = "get"
    /\ encoder = None
    /\ decoder = None
    /\ data = NoData
    /\ status = 200
    /\ raised = NoError
    /\ response = NoResponse
    /\ steps = <<"authenticate", "determine_method">>
    /\ invoked = <<>>

NextEncoder ==
    \/ dispatch_determine_encoder
    \/ dispatch_except_Error
    \/ view_except_BaseException

SpecEncoder == InitEncoder /\ [][NextEncoder]_vars

\* BaseResource.dispatch from encoder resolution on, over every content
\* type and decoder configuration drawn, with and without a body.
ContentTypes == {NoHeader, "application/json", "text/plain", "text/html",
                 "application/x-www-form-urlencoded"}

DecoderConfigs == { <<"form", "json">>, <<"text", "plain", "json">>,
                    <<"plain", "text">> }

InitDecoder ==
    /\ cls = "BaseResource"
    /\ slug \in {None, "5"}
    /\ \E body \in BOOLEAN, content_type \in ContentTypes,
          verb \in {"GET", "POST"} :
          /\ request = [Request(verb, NoHeader, NoHeader, content_type, body)
                           EXCEPT !.user = "user"]
          /\ method = lower(verb)
          /\ function = lower(verb)
    /\ format = None
    /\ http_list_allowed_methods = <<"get", "post">>
    /\ http_detail_allowed_methods = <<"get", "post">>
    /\ list_allowed_operations = <<"read", "create", "update", "destroy">>
    /\ detail_allowed_operations = <<"read", "create", "update", "destroy">>
    /\ encoders = Mimetypes
    /\ allowed_encoders = <<"json", "xml">>
    /\ default_encoder = "json"
    /\ decoders \in DecoderConfigs
    /\ objects = <<>>
    /\ resource_uri = "resource_uri"
    /\ NoApi
    /\ NoShared
    /\ authentication = <<[allow_anonymous |-> FALSE]>>
    /\ pc = "determine_encoder"
    /\ Untraversed
    /\ auth_i = 1
    /\ consulted = <<[provider |-> 1, user |-> "user"]>>
    /\ encoder = None
    /\ decoder = None
    /\ data = NoData
    /\ status = 200
    /\ raised = NoError
    /\ response = NoResponse
    /\ steps = <<"authenticate", "determine_method">>
    /\ invoked = <<>>

NextDecoder ==
    \/ dispatch_determine_encoder
    \/ dispatch_decode
    \/ dispatch_function
    \/ dispatch_prepare
    \/ dispatch_make_response
    \/ dispatch_except_Error
    \/ view_except_BaseException

SpecDecoder == InitDecoder /\ [][NextDecoder]_vars

\* BaseResource.view from the URL match on: the path segments are
\* traversed, the resource constructed and the request dispatched.
Segments == {"question", "secret", "choices", "author", "text", "votes",
             "poll", "polls", "name", "nosuch", "7", ""}

InitTraverse ==
    /\ cls = "BaseResource"
    /\ resource = "Poll"
    /\ \/ path = NoPath /\ slug \in {None, "5"}
       \/ path \in SeqUpTo(Segments, MaxPath) \ {<<>>} /\ slug = "5"
    /\ parent = <<>>
    /\ local = FALSE
    /\ request = Request("GET", NoHeader, NoHeader, NoHeader, FALSE)
    /\ format = None
    /\ http_list_allowed_methods = <<"get", "post">>
    /\ http_detail_allowed_methods = <<"get", "post">>
    /\ list_allowed_operations = <<"read", "create", "update", "destroy">>
    /\ detail_allowed_operations = <<"read", "create", "update", "destroy">>
    /\ encoders = Mimetypes
    /\ allowed_encoders = <<"json", "xml">>
    /\ default_encoder = "json"
    /\ decoders = <<"form", "json">>
    /\ objects = <<>>
    /\ resource_uri = "resource_uri"
    /\ NoApi
    /\ NoShared
    /\ authentication = <<[allow_anonymous |-> FALSE]>>
    /\ pc = "traverse"
    /\ Fresh

NextTraverse ==
    \/ traverse
    \/ construct
    \/ view_except_Error
    \/ authenticate
    \/ authenticate_else
    \/ dispatch_determine_method
    \/ dispatch_determine_encoder
    \/ dispatch_function
    \/ dispatch_prepare
    \/ dispatch_make_response
    \/ dispatch_except_Error
    \/ view_except_BaseException

SpecTraverse == InitTraverse /\ [][NextTraverse]_vars

\* A read of the choices, alone or through parents, over every store,
\* slug and chain drawn, by each of the three implementations.
Stores ==
    {rows \in SeqUpTo({Row(pk, poll) : pk \in {"1", "2"}, poll \in {"5", "6"}},
                      MaxRows) :
        \A i, j \in 1..Len(rows) : i # j => rows[i].pk # rows[j].pk}

Chains ==
    { <<>>,
      <<ParentLink("Poll", "5", "choices", "poll")>>,
      <<ParentLink("Poll", "6", "choices", "poll")>>,
      <<ParentLink("User", "9", "polls", "author"),
        ParentLink("Poll", "5", "choices", "poll")>>,
      <<ParentLink("User", "8", "polls", "author"),
        ParentLink("Poll", "5", "choices", "poll")>> }

InitRead ==
    /\ cls \in {"armet.BaseModel", "flapjack.BaseModel", "Model"}
    /\ resource = "Choice"
    /\ objects \in Stores
    /\ resource_uri = "resource_uri"
    /\ NoApi
    /\ NoShared
    /\ slug \in {None, "0", "1", "2", "x"}
    /\ path \in {NoPath, <<"text">>}
    /\ parent \in Chains
    /\ local = FALSE
    /\ request = [Request("GET", NoHeader, NoHeader, NoHeader, FALSE)
                    EXCEPT !.user = "user"]
    /\ format = None
    /\ http_list_allowed_methods = <<"get", "post">>
    /\ http_detail_allowed_methods = <<"get", "post">>
    /\ list_allowed_operations = <<"read", "create", "update", "destroy">>
    /\ detail_allowed_operations = <<"read", "create", "update", "destroy">>
    /\ encoders = Mimetypes
    /\ allowed_encoders = <<"json", "xml">>
    /\ default_encoder = "json"
    /\ decoders = <<"form">>
    /\ authentication = <<>>
    /\ pc = "read"
    /\ Fresh

NextRead ==
    \/ read_armet
    \/ get_flapjack
    \/ get_model

SpecRead == InitRead /\ [][NextRead]_vars

\* prepare and item_prepare of both classes over every value drawn: None,
\* an object, a string, a mapping and the lists of objects.
PrepareInputs ==
    {NoData, [kind |-> "string", items |-> <<"ab">>],
     [kind |-> "mapping", items |-> <<1>>]}
      \cup {[kind |-> "item", items |-> <<i>>] : i \in Items}
      \cup {List(items) : items \in SeqUpTo(Items, MaxItems)}

InitPrepare ==
    /\ cls \in {"BaseResource", "Resource"}
    /\ resource \in {"Poll", "Choice", "User"}
    /\ resource_uri \in {"resource_uri", None}
    /\ NoApi
    /\ NoShared
    /\ data \in PrepareInputs
    /\ pc \in {"prepare"} \cup (IF data.kind = "list" THEN {} ELSE {"item_prepare"})
    /\ path \in {NoPath, <<"resource_uri">>, <<"name">>, <<"nothing">>}
    /\ parent = <<>>
    /\ local = FALSE
    /\ objects = <<>>
    /\ slug = None
    /\ request = [Request("GET", NoHeader, NoHeader, NoHeader, FALSE)
                    EXCEPT !.user = "user"]
    /\ format = None
    /\ http_list_allowed_methods = <<"get", "post">>
    /\ http_detail_allowed_methods = <<"get", "post">>
    /\ list_allowed_operations = <<"read", "create", "update", "destroy">>
    /\ detail_allowed_operations = <<"read", "create", "update", "destroy">>
    /\ encoders = Mimetypes
    /\ allowed_encoders = <<"json", "xml">>
    /\ default_encoder = "json"
    /\ decoders = <<"form">>
    /\ authentication = <<>>
    /\ auth_i = 1
    /\ consulted = <<>>
    /\ method = "GET"
    /\ function = "get"
    /\ encoder = "json"
    /\ decoder = None
    /\ status = 200
    /\ raised = NoError
    /\ response = NoResponse
    /\ steps = <<>>
    /\ invoked = <<>>

NextPrepare ==
    \/ apply_item_prepare
    \/ apply_Resource_item_prepare
    \/ dispatch_prepare
    \/ resource_prepare

SpecPrepare == InitPrepare /\ [][NextPrepare]_vars

\* The URL of every resource under every chain of parent links the
\* relations of the resources allow.
Links ==
    UNION {{ParentLink(res, s, f.name, f.relation.related_name) :
               s \in {"5", "6"},
               f \in {g \in {Fields(res)[n] : n \in 1..Len(Fields(res))} :
                         g.relation # NoRelation /\ g.visible}} :
             res \in {"Poll", "Choice", "User"}}

\* The resource a link leads to.
Target(link) == FieldOf(link.resource, link.name).relation.resource

ParentChains ==
    {chain \in SeqUpTo(Links, MaxParents) :
        \A i \in 1..(Len(chain) - 1) : Target(chain[i]) = chain[i + 1].resource}

InitReverse ==
    /\ cls = "BaseResource"
    /\ parent \in ParentChains
    /\ resource \in IF parent = <<>> THEN {"Poll", "Choice", "User"}
                    ELSE {Target(parent[Len(parent)])}
    /\ slug \in {None, "1"}
    /\ path \in {NoPath, <<"text">>, <<"question", "text">>}
    /\ local \in BOOLEAN
    /\ objects = <<>>
    /\ resource_uri = "resource_uri"
    /\ NoApi
    /\ NoShared
    /\ request = Request("GET", NoHeader, NoHeader, NoHeader, FALSE)
    /\ format = None
    /\ http_list_allowed_methods = <<"get", "post">>
    /\ http_detail_allowed_methods = <<"get", "post">>
    /\ list_allowed_operations = <<"read", "create", "update", "destroy">>
    /\ detail_allowed_operations = <<"read", "create", "update", "destroy">>
    /\ encoders = Mimetypes
    /\ allowed_encoders = <<"json", "xml">>
    /\ default_encoder = "json"
    /\ decoders = <<"form">>
    /\ authentication = <<>>
    /\ pc = "url"
    /\ Fresh

NextReverse ==
    \/ url

SpecReverse == InitReverse /\ [][NextReverse]_vars

\* An Api with up to MaxRegistered handlers registered, answering one
\* request.
ApiPaths ==
    {Text("/"),
     Text("/") \o Text("test"),
     Text("/") \o Text("test") \o Text("/"),
     Text("/") \o Text("unknown"),
     Text("/") \o Text("test") \o Text("/") \o Text("1"),
     Text("/") \o Text("unknown") \o Text("/") \o Text("1"),
     Text("/") \o Text("test") \o Text("/") \o Text("1") \o Text("/") \o Text("bar"),
     Text("/") \o Text("unknown") \o Text("/") \o Text("1") \o Text("/") \o Text("bar")}

InitApi ==
    /\ cls = "Api"
    /\ NoShared
    /\ _registry = <<>>
    /\ registered = <<>>
    /\ trailing_slash \in BOOLEAN
    /\ request \in {ApiRequest(verb, p, accept, ct[1], ct[2]) :
                       verb \in {"GET", "POST", "ROUTE", "SETUP"},
                       p \in ApiPaths,
                       accept \in {NoHeader, "text/csv"},
                       ct \in {<<NoHeader, FALSE>>, <<"application/json", TRUE>>}}
    /\ resource_uri = "resource_uri"
    /\ objects = <<>>
    /\ Untraversed
    /\ slug = None
    /\ format = None
    /\ http_list_allowed_methods = <<"get", "post">>
    /\ http_detail_allowed_methods = <<"get", "post">>
    /\ list_allowed_operations = <<"read", "create", "update", "destroy">>
    /\ detail_allowed_operations = <<"read", "create", "update", "destroy">>
    /\ encoders = Mimetypes
    /\ allowed_encoders = <<"json", "xml">>
    /\ default_encoder = "json"
    /\ decoders = <<"form">>
    /\ authentication = <<>>
    /\ pc = "api"
    /\ Fresh

NextApi ==
    \/ register
    \/ api_call
    \/ api_route
    \/ api_get
    \/ api_encode
    \/ api_except_Base
    \/ api_teardown

SpecApi == InitApi /\ [][NextApi]_vars

\* merge_headers over every tuple of up to MaxLists header lists.
MaxLists == 2

\* Longest header list drawn.
MaxHeaders == 2

HeaderLists ==
    SeqUpTo(SeqUpTo({<<n, v>> : n \in {"Allow", "Vary"}, v \in {"a", "b"}},
                    MaxHeaders),
            MaxLists)

InitMerge ==
    /\ cls = "utils"
    /\ data \in {[kind |-> "headers", items |-> lists] : lists \in HeaderLists}
    /\ pc = "merge_headers"
    /\ resource_uri = "resource_uri"
    /\ NoApi
    /\ NoShared
    /\ objects = <<>>
    /\ Untraversed
    /\ slug = None
    /\ format = None
    /\ request = Request("GET", NoHeader, NoHeader, NoHeader, FALSE)
    /\ http_list_allowed_methods = <<"get", "post">>
    /\ http_detail_allowed_methods = <<"get", "post">>
    /\ list_allowed_operations = <<"read", "create", "update", "destroy">>
    /\ detail_allowed_operations = <<"read", "create", "update", "destroy">>
    /\ encoders = Mimetypes
    /\ allowed_encoders = <<"json", "xml">>
    /\ default_encoder = "json"
    /\ decoders = <<"form">>
    /\ authentication = <<>>
    /\ auth_i = 1
    /\ consulted = <<>>
    /\ method = None
    /\ function = None
    /\ encoder = None
    /\ decoder = None
    /\ status = 200
    /\ raised = NoError
    /\ response = NoResponse
    /\ steps = <<>>
    /\ invoked = <<>>

NextMerge ==
    \/ apply_merge_headers

SpecMerge == InitMerge /\ [][NextMerge]_vars

\* Everything of a mounted resource and its request, for the operations
\* that take no part in a request cycle.
Unmounted ==
    /\ resource_uri = "resource_uri"
    /\ NoApi
    /\ objects = <<>>
    /\ Untraversed
    /\ slug = None
    /\ format = None
    /\ request = Request("GET", NoHeader, NoHeader, NoHeader, FALSE)
    /\ http_list_allowed_methods = <<"get", "post">>
    /\ http_detail_allowed_methods = <<"get", "post">>
    /\ list_allowed_operations = <<"read", "create", "update", "destroy">>
    /\ detail_allowed_operations = <<"read", "create", "update", "destroy">>
    /\ encoders = Mimetypes
    /\ allowed_encoders = <<"json", "xml">>
    /\ default_encoder = "json"
    /\ decoders = <<"form">>
    /\ authentication = <<>>
    /\ Fresh

\* The fields a generated model resource may declare at one position: a
\* plain field, a relation to model resource A or B (visible or not), a
\* relation to a resource that is not a model resource.
FieldKinds ==
    {<<TRUE, None>>, <<TRUE, "A">>, <<TRUE, "B">>, <<FALSE, "B">>,
     <<TRUE, "Other">>}

\* The name of the field at position i of a generated resource.
FieldName(res, i) ==
    IF res = "A" THEN <<"a1", "a2", "a3">>[i] ELSE <<"b1", "b2", "b3">>[i]

\* The declarations of a generated resource.
Declarations(res) ==
    {[i \in 1..Len(ks) |->
        Field(FieldName(res, i), ks[i][1],
              IF ks[i][2] = None THEN NoRelation
              ELSE relation(ks[i][2], FieldName(res, i), FALSE),
              FALSE)] : ks \in SeqUpTo(FieldKinds, MaxFields)}

\* Every relation graph over two model resources, cycles included, built
\* once from each resource, with and without a prefix.
InitBuild ==
    /\ cls = "armet.BaseModel"
    /\ _fields \in {[A |-> fa, B |-> fb] :
                       fa \in Declarations("A"), fb \in Declarations("B")}
    /\ _prefetch_related_paths = [c \in {"A", "B"} |-> NotCached]
    /\ threads \in {<<Thread(res, prefix, 1, "test")>> :
                       res \in {"A", "B"},
                       prefix \in {NoPrefix, StrPrefix(<<"a1">>)}}
    /\ map = <<>>
    /\ pc = "build"
    /\ Unmounted

NextBuild ==
    \/ build

SpecBuild == InitBuild /\ [][NextBuild]_vars

\* Most requests that prefetch at the same time.
MaxThreads == 2

\* cls._fields of the model resources of the polls application.
PollsFields == [res \in {"Poll", "Choice", "User"} |-> Fields(res)]

\* The calls of prefetch_related a request makes: on a resource, with its
\* queryset empty or not, with no prefix or the lookup of a relation.
PrefetchCalls(phase) ==
    {Thread(res, prefix, rows, phase) :
        res \in {"Poll", "Choice"},
        prefix \in {NoPrefix, StrPrefix(<<"poll">>)},
        rows \in {0, 1}}

\* Requests that reach prefetch_related of their resource while the caches
\* of all classes are still unset.
InitPrefetch ==
    /\ cls \in {"flapjack.BaseModel", "armet.BaseModel"}
    /\ _fields = PollsFields
    /\ _prefetch_related_paths = [c \in DOMAIN PollsFields |-> NotCached]
    /\ threads \in UNION {[1..n -> PrefetchCalls(IF cls = "armet.BaseModel"
                                                  THEN "test" ELSE "init")] :
                             n \in 1..MaxThreads}
    /\ map = <<>>
    /\ pc = "prefetch"
    /\ Unmounted

NextPrefetch ==
    \/ flapjack_prefetch_related
    \/ armet_prefetch_related

SpecPrefetch == InitPrefetch /\ [][NextPrefetch]_vars

\* The class attribute `fields` of the Resource classes of the polls
\* application; the poll of a choice is declared to relate to `back`.
ResourceFields(back) ==
    [res \in {"Poll", "Choice", "User", "PollSummary"} |->
        [i \in 1..Len(Fields(res)) |->
            LET f == Fields(res)[i] IN
            IF f.relation = NoRelation THEN f
            ELSE IF res = "Choice" /\ f.name = "poll"
            THEN [f EXCEPT !.relation = related_to(back)]
            ELSE [f EXCEPT !.relation = related_to(f.relation.resource)]]]

ComponentSegments ==
    {"question", "choices", "author", "poll", "voters", "polls",
     "resource_uri", "nosuch", "7", ""}

\* Resource.view on a poll, from the call of traverse on: a GET without a
\* body whose encoder and method are resolved, over every list of
\* components.
InitComponents ==
    /\ cls = "Resource"
    /\ resource = "Poll"
    /\ slug = "5"
    /\ path \in SeqUpTo(ComponentSegments, MaxPath) \ {<<>>}
    /\ parent = <<>>
    /\ local = FALSE
    /\ format = None
    /\ request = Request("GET", NoHeader, NoHeader, NoHeader, FALSE)
    /\ _fields \in {ResourceFields(back) : back \in {"Poll", "PollSummary"}}
    /\ _prefetch_related_paths = <<>>
    /\ threads = <<>>
    /\ map = <<>>
    /\ http_list_allowed_methods = <<"get", "post">>
    /\ http_detail_allowed_methods = <<"get", "post">>
    /\ list_allowed_operations = <<"read", "create", "update", "destroy">>
    /\ detail_allowed_operations = <<"read", "create", "update", "destroy">>
    /\ encoders = Mimetypes
    /\ allowed_encoders = <<"json", "xml">>
    /\ default_encoder = "json"
    /\ decoders = <<"form", "json">>
    /\ objects = <<>>
    /\ resource_uri = "resource_uri"
    /\ NoApi
    /\ authentication = <<>>
    /\ pc = "traverse"
    /\ auth_i = 1
    /\ consulted = <<>>
    /\ method = "get"
    /\ function = "get"
    /\ encoder = "json"
    /\ decoder = None
    /\ data = NoData
    /\ status = 200
    /\ raised = NoError
    /\ response = NoResponse
    /\ steps = <<"find_encoder", "determine_method">>
    /\ invoked = <<>>

NextComponents ==
    \/ resource_traverse
    \/ resource_function
    \/ resource_prepare
    \/ view_respond
    \/ resource_except_Error
    \/ resource_except_BaseException

SpecComponents == InitComponents /\ [][NextComponents]_vars

\* A Registry as constructed, and the calls made on it one after another.
InitRegistry ==
    /\ cls = "Registry"
    /\ map = EmptyDict
    /\ _fields = <<>>
    /\ _prefetch_related_paths = <<>>
    /\ threads = <<>>
    /\ pc = "registry"
    /\ Unmounted

NextRegistry ==
    \/ registry_register
    \/ registry_find
    \/ registry_rfind
    \/ registry_remove

SpecRegistry == InitRegistry /\ [][NextRegistry]_vars

----------------------------------------------------------------------------
(* Properties.                                                              *)

\* The steps of BaseResource.dispatch in the order of its source text; the
\* handler's own steps (assert_operation, read) sit between function and
\* prepare.
DispatchOrder ==
    <<"authenticate", "determine_method", "determine_encoder",
      "determine_decoder", "decode", "clean", "function", "assert_operation",
      "read", "prepare", "make_response">>

Rank(step) == CHOOSE i \in 1..Len(DispatchOrder) : DispatchOrder[i] = step

\* The steps that must have run before `step` does.
Before(step) ==
    CASE step = "authenticate" -> {}
      [] step = "determine_method" -> {"authenticate"}
      [] step = "determine_encoder" -> {"determine_method"}
      [] step = "determine_decoder" -> {"determine_encoder"}
      [] step = "decode" -> {"determine_decoder"}
      [] step = "clean" -> {"decode"}
      [] step = "function" ->
            IF request.body THEN {"determine_encoder", "clean"}
            ELSE {"determine_encoder"}
      [] step = "assert_operation" -> {"function"}
      [] step = "read" -> {"assert_operation"}
      [] step = "prepare" -> {"function"}
      [] step = "make_response" -> {"prepare"}

Failed == pc \in {"except_Error", "except_BaseException"}

HandlerRan == In("function", steps)

StepsInOrder ==
    /\ \A i, j \in 1..Len(steps) :
          i < j => Rank(steps[i]) < Rank(steps[j])
    /\ \A i \in 1..Len(steps) :
          \A b \in Before(steps[i]) : \E j \in 1..(i - 1) : steps[j] = b
    /\ In("determine_decoder", steps) => request.body
    /\ (pc = "done" /\ raised # NoError) => response.status >= 400

FailureEndsRequest ==
    Failed => /\ steps' = steps
              /\ invoked' = invoked
              /\ pc' = "done"
              /\ response'.status >= 400

\* C1: BaseResource.dispatch runs authenticate, method resolution, encoder
\* resolution, (decoder selection, decode, clean: only with a body), the
\* handler (operation authorization, then data access), prepare and
\* response construction in that order, each step only after the ones
\* before it; a failure at any step ends the request with an error response
\* and no later step is executed.
C1_DispatchOrder ==
    /\ [](cls = "BaseResource" => StepsInOrder)
    /\ [][cls = "BaseResource" => FailureEndsRequest]_vars

\* C1: a request with a body refused at operation authorization: every
\* earlier step ran, in order, and nothing after it.
C1_Witness ==
    /\ cls = "BaseResource"
    /\ pc = "done"
    /\ raised.kind = "Forbidden"
    /\ response.status = 403
    /\ steps = <<"authenticate", "determine_method", "determine_encoder",
                 "determine_decoder", "decode", "clean", "function",
                 "assert_operation">>
    /\ invoked = <<>>

\* The logical operation each handler maps to.
OperationOf(handler) ==
    CASE handler = "get" -> "read"
      [] handler = "post" -> "create"
      [] handler = "put" -> "update"
      [] handler = "delete" -> "destroy"

\* The allowed operations of the access-kind: detail iff slug is non-null.
AllowedOperations ==
    IF slug # None THEN detail_allowed_operations
    ELSE list_allowed_operations

\* C2 (as claimed): whenever a handler has run whose operation is not among
\* the allowed operations of the access-kind, the request failed Forbidden
\* with payload {allowed, message} and no data-access operation was
\* invoked.
C2_ForbiddenBeforeDataAccess ==
    (HandlerRan /\ ~In(OperationOf(function), AllowedOperations))
       => /\ raised.kind = "Forbidden"
          /\ raised.allowed = AllowedOperations
          /\ raised.operation = OperationOf(function)
          /\ invoked = <<>>

\* The allowed verbs of the access-kind: detail iff slug is non-null.
AllowedMethods ==
    IF slug # None THEN http_detail_allowed_methods
    ELSE http_list_allowed_methods

\* What method resolution must have done for the effective verb v.
Classified(v) ==
    IF ~In(v, http_method_names(cls))
    THEN raised.kind = "NotImplemented" /\ function = None
    ELSE IF ~In(v, AllowedMethods)
    THEN /\ raised.kind = "MethodNotAllowed"
         /\ raised.allow = [i \in 1..Len(AllowedMethods) |->
                               upper(AllowedMethods[i])]
         /\ function = None
    ELSE IF v \notin bound(cls)
    THEN raised.kind = "NotImplemented" /\ function = None
    ELSE function = v /\ raised.kind \notin {"MethodNotAllowed"}

\* C3: once method resolution has run, the effective verb was classified in
\* this precedence: not understood gives NotImplemented; otherwise not
\* allowed for the access-kind gives MethodNotAllowed with an Allow header
\* of exactly that access-kind's allowed verbs, uppercased; otherwise no
\* bound handler gives NotImplemented; otherwise the bound handler is
\* returned.
C3_MethodResolution ==
    In("determine_method", steps) => Classified(method)

\* C3: a verb that is understood but not allowed on a list access was
\* refused with the list's verbs in the Allow header.
C3_Witness ==
    /\ cls = "BaseResource"
    /\ slug = None
    /\ method = "delete"
    /\ raised.kind = "MethodNotAllowed"
    /\ raised.allow = <<"GET", "POST">>
    /\ pc = "done"
    /\ response.status = 405

\* C4 (as claimed): a POST whose override header names DELETE, in any
\* letter case, is dispatched as DELETE: the understood-verb check, the
\* allowed-methods check, the handler lookup and the operation check are
\* made for delete.
C4_OverrideDispatchedAsDelete ==
    ( /\ request.override \in {"DELETE", "delete"}
      /\ cls = "Resource" => request.method = "POST"
      /\ In("determine_method", steps) )
       => /\ method = "delete"
          /\ Classified("delete")
          /\ HandlerRan => function = "delete"

\* C5 (as claimed): the providers are consulted in declared order; the
\* first one that returns a non-null principal ends the loop and that
\* principal is the request's user; when the chain is exhausted, an empty
\* chain included, dispatch fails Unauthenticated and no handler runs.
C5_FirstPrincipalWins ==
    cls = "BaseResource" =>
       /\ \A i \in 1..Len(consulted) : consulted[i].provider = i
       /\ \A i \in 1..Len(consulted) :
             consulted[i].user # None
                => /\ i = Len(consulted)
                   /\ pc # "authenticate"
                   /\ request.user = consulted[i].user
       /\ ( /\ pc # "authenticate"
            /\ \A i \in 1..Len(consulted) : consulted[i].user = None )
             => /\ raised.kind = "Unauthenticated"
                /\ ~HandlerRan

\* authenticate ended at the i-th consultation with its principal as the
\* request's user.
AuthenticatedAt(i) ==
    /\ i = Len(consulted)
    /\ pc # "authenticate"
    /\ request.user = consulted[i].user
    /\ In("determine_method", steps) \/ pc = "determine_method"

\* C6 (as claimed): when a provider that declares allow_anonymous returns a
\* null principal, authentication succeeds at that provider.
C6_NullPrincipalPasses ==
    cls = "BaseResource" =>
       \A i \in 1..Len(consulted) :
          ( /\ authentication[consulted[i].provider].allow_anonymous
            /\ consulted[i].user = None
            /\ (i < Len(consulted) \/ auth_i > i \/ pc # "authenticate") )
             => AuthenticatedAt(i)

\* C6 (amended): when a provider that declares allow_anonymous returns a
\* principal that is non-null but not authenticated, authentication
\* succeeds with it as the request's user; a null principal never ends the
\* loop, whatever allow_anonymous says: the next provider is consulted.
C6_AnonymousPrincipalPasses ==
    cls = "BaseResource" =>
       \A i \in 1..Len(consulted) :
          /\ ( /\ authentication[consulted[i].provider].allow_anonymous
               /\ consulted[i].user = "anonymous" )
                => AuthenticatedAt(i)
          /\ consulted[i].user = None
                => /\ request.user = None \/ i < Len(consulted)
                   /\ i < Len(consulted) \/ auth_i = i + 1

\* C6: an anonymous user let through by an allow_anonymous provider, after
\* a provider that returned None, served to the end.
C6_Witness ==
    /\ cls = "BaseResource"
    /\ Len(consulted) = 2
    /\ consulted[1].user = None
    /\ authentication[1].allow_anonymous
    /\ consulted[2].user = "anonymous"
    /\ authentication[2].allow_anonymous
    /\ request.user = "anonymous"
    /\ pc = "done"
    /\ response.status = 200

\* Encoder resolution has run for the request.
EncoderResolved == cls = "BaseResource" /\ In("determine_encoder", steps)

\* The format token names an encoder that is allowed and configured.
FormatYields ==
    /\ format # None
    /\ In(lower(format), allowed_encoders)
    /\ lower(format) \in DOMAIN encoders

\* The Accept header is present and not a full wildcard.
AcceptGiven ==
    request.accept # NoHeader /\ request.accept \notin {"*/*", " */* "}

\* The encoder resolution ended with encoder `name` and no error.
Selected(name) == encoder = name /\ raised = NoError

\* C7: when a format token is supplied and names an allowed (and
\* configured) encoder, letter case aside, that encoder is the one selected
\* and no error is raised, whatever the Accept header says.
C7_FormatOverridesAccept ==
    (EncoderResolved /\ FormatYields) => Selected(lower(format))

\* C7: the token JSON won over an Accept header that matches the other
\* allowed encoder.
C7_Witness ==
    /\ EncoderResolved
    /\ format = "JSON"
    /\ request.accept = "application/xml"
    /\ allowed_encoders = <<"json", "xml">>
    /\ encoder = "json"
    /\ raised = NoError

\* Some allowed and configured encoder matches the Accept header.
AcceptYields ==
    /\ AcceptGiven
    /\ \E i \in 1..Len(allowed_encoders) :
          /\ allowed_encoders[i] \in DOMAIN encoders
          /\ can_transcode(encoders[allowed_encoders[i]], request.accept)

\* The default encoder is configured.
DefaultYields == default_encoder \in DOMAIN encoders

\* C8 (as claimed): encoder selection fails NotAcceptable only if none of
\* its steps - format token, Accept header, configured default - yields an
\* encoder.
C8_FailsOnlyIfNoStepYields ==
    (EncoderResolved /\ raised.kind = "NotAcceptable")
       => ~FormatYields /\ ~AcceptYields /\ ~DefaultYields

\* Every name of allowed_encoders is a key of encoders.
AllConfigured ==
    \A i \in 1..Len(allowed_encoders) : allowed_encoders[i] \in DOMAIN encoders

\* The positions of allowed_encoders the Accept loop can return at: the
\* first match, reached through configured names only.
FirstMatch ==
    {i \in 1..Len(allowed_encoders) :
        /\ \A j \in 1..i : allowed_encoders[j] \in DOMAIN encoders
        /\ can_transcode(encoders[allowed_encoders[i]], request.accept)
        /\ \A j \in 1..(i - 1) :
              ~can_transcode(encoders[allowed_encoders[j]], request.accept)}

\* The one branch taken fails: NotAcceptable, or KeyError when the payload
\* cannot be built for an allowed name that is not configured.
SelectionFails ==
    /\ encoder = None
    /\ raised.kind = IF AllConfigured THEN "NotAcceptable" ELSE "KeyError"

\* C8 (amended): encoder selection takes exactly one branch and never goes
\* on to a later one. With a format token: the named encoder if it is
\* allowed and configured, else failure, Accept and default unconsulted.
\* Without one and with an Accept header that is not a full wildcard: the
\* first allowed encoder that matches, else failure, default unconsulted.
\* Otherwise the default encoder, without error.
C8_OneBranch ==
    EncoderResolved =>
       IF format # None
       THEN IF FormatYields THEN Selected(lower(format)) ELSE SelectionFails
       ELSE IF AcceptGiven
       THEN IF FirstMatch # {}
            THEN \E i \in FirstMatch : Selected(allowed_encoders[i])
            ELSE SelectionFails
       ELSE Selected(IF DefaultYields THEN default_encoder ELSE None)

\* C8: a format token naming no allowed encoder ended the request with 406
\* although the Accept header matches an allowed encoder and the default
\* encoder is configured.
C8_Witness ==
    /\ EncoderResolved
    /\ format = "yaml"
    /\ request.accept = "application/json"
    /\ In("json", allowed_encoders)
    /\ DefaultYields
    /\ raised.kind = "NotAcceptable"
    /\ pc = "done"
    /\ response.status = 406

C10_NotAcceptablePayload ==
    /\ (EncoderResolved /\ raised.kind = "NotAcceptable")
          => /\ DOMAIN raised.available
                  = {allowed_encoders[i] : i \in 1..Len(allowed_encoders)}
             /\ \A n \in DOMAIN raised.available :
                   raised.available[n] = encoders[n]
    /\ ( /\ EncoderResolved
         /\ allowed_encoders = <<"json">>
         /\ format = None
         /\ request.accept = "application/xml" )
          => /\ raised.kind = "NotAcceptable"
             /\ pc = "done"
                   => /\ response.status = 406
                      /\ response.content.available
                            = [json |-> "application/json"]

\* C10: the json-only resource answered application/xml with 406 and the
\* json mimetype, although an xml encoder is configured.
C10_Witness ==
    /\ EncoderResolved
    /\ allowed_encoders = <<"json">>
    /\ "xml" \in DOMAIN encoders
    /\ format = None
    /\ request.accept = "application/xml"
    /\ pc = "done"
    /\ response.status = 406
    /\ response.content.available = [json |-> "application/json"]

\* The content type _determine_decoder goes by.
ContentType ==
    IF request.content_type = NoHeader THEN "application/octet-stream"
    ELSE request.content_type

\* The positions of decoders whose predicate matches the content type.
MatchingDecoders ==
    {i \in 1..Len(decoders) : decoder_can_transcode(decoders[i], ContentType)}

\* C11: a decoder is selected only when the request body is non-empty; the
\* one selected is the first of the declared decoders whose predicate
\* matches the content type; when none matches the request fails
\* UnsupportedMediaType (415) and no handler runs; with an empty body no
\* decoder is selected and UnsupportedMediaType does not occur.
C11_DecoderSelection ==
    cls = "BaseResource" =>
       /\ In("determine_decoder", steps) => request.body
       /\ ~request.body
             => decoder = None /\ raised.kind # "UnsupportedMediaType"
       /\ (In("determine_decoder", steps) /\ MatchingDecoders # {})
             => /\ \E i \in MatchingDecoders :
                      /\ \A j \in MatchingDecoders : i <= j
                      /\ decoder = decoders[i]
                /\ raised.kind # "UnsupportedMediaType"
       /\ (In("determine_decoder", steps) /\ MatchingDecoders = {})
             => /\ decoder = None
                /\ raised.kind = "UnsupportedMediaType"
                /\ ~HandlerRan
                /\ pc = "done" => response.status = 415

\* C11: of two decoders that match text/plain, the one declared first was
\* selected and the handler ran.
C11_Witness ==
    /\ cls = "BaseResource"
    /\ decoders = <<"text", "plain", "json">>
    /\ request.body
    /\ request.content_type = "text/plain"
    /\ decoder = "text"
    /\ HandlerRan
    /\ pc = "done"

\* The handler returned None as its data.
HandlerReturnedNone ==
    \/ data.kind = "None"
    \/ data.kind = "prepared" /\ data.of = "None"

\* C12 (as claimed): when the handler returned None, prepare and the
\* encoder are not run, the body is empty and no content type is set; when
\* it returned data, the body is the encoding of prepare(data) and the
\* content type is the negotiated encoder's mimetype; the status is the
\* handler's in both cases.
C12_NoneIsNotSerialized ==
    (cls = "BaseResource" /\ HandlerRan /\ raised = NoError /\ pc = "done")
       => /\ response.status = status
          /\ IF HandlerReturnedNone
             THEN /\ data.kind = "None"
                  /\ response.content = None
                  /\ response.content_type = None
             ELSE /\ data.kind = "prepared"
                  /\ response.content.items = data.items
                  /\ response.content.body = encode(data.body).value
                  /\ response.content_type = encoders[encoder]

\* traverse is at a segment that names no field, or a field not visible.
AtMissing ==
    /\ cls = "BaseResource" /\ pc = "traverse" /\ ~no_path(path)
    /\ FieldOf(resource, path[1]) = NoField

AtHidden ==
    /\ cls = "BaseResource" /\ pc = "traverse" /\ ~no_path(path)
    /\ FieldOf(resource, path[1]) # NoField
    /\ ~FieldOf(resource, path[1]).visible

\* The one response a NotFound raised in traversal gives.
NotFoundResponse ==
    [status |-> 404, content |-> Error("NotFound"), content_type |-> None,
     allow |-> <<>>, encoder |-> "default"]

\* C13: at every depth, traverse fails NotFound both at a segment that
\* names no field of the current resource and at one that names a field
\* that is not visible, without going further; the response is the same in
\* the two cases and carries nothing of the field.
C13_HiddenIsNotFound ==
    /\ [][(AtMissing \/ AtHidden)
            => /\ pc' = "view_except_Error"
               /\ raised' = Error("NotFound")
               /\ UNCHANGED <<slug, path, parent, resource>>]_vars
    /\ [](pc = "view_except_Error" => raised = Error("NotFound"))
    /\ []((pc = "done" /\ ~In("construct", steps) /\ raised.kind = "NotFound")
             => response = NotFoundResponse)

\* C13: one hop down, on a choice, the hidden field votes was answered 404.
C13_Witness ==
    /\ cls = "BaseResource"
    /\ resource = "Choice"
    /\ Len(parent) = 1
    /\ path # <<>> /\ path[1] = "votes"
    /\ pc = "done"
    /\ response = NotFoundResponse

\* traverse is at a segment that names a visible field with a relation.
AtRelation ==
    /\ cls = "BaseResource" /\ pc = "traverse" /\ ~no_path(path)
    /\ FieldOf(resource, path[1]) # NoField
    /\ FieldOf(resource, path[1]).visible
    /\ FieldOf(resource, path[1]).relation # NoRelation

\* C14 (as claimed): a relation segment pushes exactly one parent link
\* (current resource, current slug, field name, related_name) and switches
\* to the relation's target; the new slug is the following segment, also
\* consumed, iff the relation is a collection and another segment follows;
\* otherwise the new slug is null, and the related resource is then
\* constructed and dispatched as a list access.
C14_RelationHop ==
    [][ /\ AtRelation
           => LET field == FieldOf(resource, path[1]) IN
              /\ parent' = Append(parent,
                              [resource |-> resource, slug |-> slug,
                               name |-> path[1],
                               related_name |-> field.relation.related_name])
              /\ resource' = field.relation.resource
              /\ IF field.collection /\ Len(path) >= 2
                 THEN slug' = path[2] /\ path' = SubSeq(path, 3, Len(path))
                 ELSE slug' = None /\ path' = SubSeq(path, 2, Len(path))
        /\ (cls = "BaseResource" /\ pc = "construct" /\ parent # <<>>
              /\ slug = None)
           => pc' = "authenticate" /\ slug' = None ]_vars

\* traverse is at a segment that names a visible field with no relation.
AtPlainField ==
    /\ cls = "BaseResource" /\ pc = "traverse" /\ ~no_path(path)
    /\ FieldOf(resource, path[1]) # NoField
    /\ FieldOf(resource, path[1]).visible
    /\ FieldOf(resource, path[1]).relation = NoRelation

\* The item prepared in full: every visible field of the resource.
FullItem(item) ==
    Mapping([n \in {Fields(resource)[i].name :
                      i \in {k \in 1..Len(Fields(resource)) :
                                Fields(resource)[k].visible}}
               |-> field_value(resource, n, item)])

\* The request went through prepare for a single item with a residual path.
PreparedByPath ==
    /\ cls = "BaseResource"
    /\ path # NoPath /\ path # <<>>
    /\ In("prepare", steps)
    /\ pc = "done"

\* C15: at a visible field with no relation traverse stops on the current
\* resource and keeps every remaining segment, that one included, as the
\* path; the response for the item is then the leaf that path addresses
\* inside the item prepared in full, not the full item, and a path that
\* does not resolve there gives NotFound.
C15_ResidualPath ==
    /\ [][AtPlainField
            => /\ pc' = "construct"
               /\ UNCHANGED <<slug, path, parent, resource>>]_vars
    /\ [](PreparedByPath
            => LET item == data.items[1]
                   leaf == accessor(path, FullItem(item))
               IN  IF leaf.kind = "NotFound"
                   THEN /\ raised.kind = "NotFound"
                        /\ response.status = 404
                   ELSE /\ raised = NoError
                        /\ response.status = 200
                        /\ response.content.body = leaf.value
                        /\ response.content.body # FullItem(item))

\* C15: the text of the question of poll 5 was served alone.
C15_Witness ==
    /\ cls = "BaseResource"
    /\ resource = "Poll"
    /\ path = <<"question", "text">>
    /\ pc = "done"
    /\ response.status = 200
    /\ response.content.body = Scalar("text", 1)

\* A detail read has ended.
DetailRead == pc = "done" /\ In("read", invoked) /\ slug # None

\* Some row of the model has the slug as its primary key.
SlugExists == \E i \in 1..Len(objects) : objects[i].pk = slug

\* C16 (as claimed): a detail access whose slug identifies no existing
\* instance yields NotFound, with or without a residual path, and no
\* instance is returned in its place.
C16_MissingSlugIsNotFound ==
    (DetailRead /\ ~SlugExists)
       => raised.kind = "NotFound" /\ data = NoData

\* The row is related to every ancestor of the chain: to the poll of the
\* nearest link, and to that poll's author for the link above it.
RelatedToChain(row) ==
    /\ Len(parent) >= 1 => row.poll = parent[Len(parent)].slug
    /\ Len(parent) >= 2 => row.author = parent[Len(parent) - 1].slug

\* C17 (as claimed): a read through a parent chain is filtered by every
\* link: a list read returns exactly the rows related to each ancestor,
\* in order, and a detail read whose slug identifies a row that is not
\* related to the ancestors yields NotFound rather than that row.
C17_ReadFilteredByParents ==
    (pc = "done" /\ In("read", invoked)
        /\ cls \in {"armet.BaseModel", "flapjack.BaseModel"})
       => IF slug = None
          THEN /\ raised = NoError
               /\ data.kind = "list"
               /\ data.items = SelectSeq(objects, RelatedToChain)
          ELSE \A i \in 1..Len(objects) :
                  (objects[i].pk = slug /\ ~RelatedToChain(objects[i]))
                     => raised.kind = "NotFound" /\ data = NoData


\* item_prepare has returned the mapping of one item, no residual path
\* filtering it.
ItemPrepared ==
    /\ pc = "done" /\ data.kind = "prepared" /\ ~In("prepare", steps)
    /\ no_path(path)

\* The names of the visible fields of the resource, in declaration order.
VisibleNames ==
    LET fs == SelectSeq(Fields(resource), LAMBDA f : f.visible)
    IN  [i \in 1..Len(fs) |-> fs[i].name]

\* C18 (as claimed): the mapping item_prepare returns lists the visible
\* fields, and only them, in declaration order whatever the item holds,
\* after the resource-URI field when one is configured (in the Resource
\* generation, which is the one that inserts it).
C18_DeclarationOrder ==
    ItemPrepared
       => data.keys = IF cls = "Resource" /\ resource_uri # None
                      THEN <<resource_uri>> \o VisibleNames
                      ELSE VisibleNames

\* The item item_prepare was applied to, as a Python value.
PreparedItem == value([kind |-> data.of, items |-> data.items])

\* What a relation field shows of a related value: its URI.
Shown(f, val) ==
    IF f.relation # NoRelation
    THEN Resource_reverse(f.relation.resource, val)
    ELSE val

\* C19 (as claimed): in the mapping Resource.item_prepare returns, every
\* visible collection field is a sequence: empty for an attribute that is
\* None or missing, of one element for an attribute that is a single object
\* or a string, and of the attribute's elements in their order for an
\* attribute that is a sequence.
C19_CollectionIsSequence ==
    (cls = "Resource" /\ ItemPrepared)
       => \A k \in 1..Len(Fields(resource)) :
             LET f == Fields(resource)[k]
                 attr == getattr(PreparedItem, resource, f.name)
                 out == od_get(data.body.v, f.name)
             IN  (f.visible /\ f.collection)
                    => /\ od_has(data.body.v, f.name)
                       /\ out.kind = "sequence"
                       /\ attr.kind = "None" => out.v = <<>>
                       /\ attr.kind \in {"object", "string"}
                             => out.v = <<Shown(f, attr)>>
                       /\ attr.kind = "sequence"
                             => out.v = [i \in 1..Len(attr.v) |->
                                            Shown(f, attr.v[i])]

\* prepare has returned, no component selecting an entry of the item.
Prepared ==
    /\ data.kind = "prepared" /\ In("prepare", steps)
    /\ pc = "make_response" /\ no_path(path)

\* C20 (as claimed): prepare hands a string, a mapping and an object that
\* cannot be iterated to item_prepare as one item, and prepares a list
\* element by element in order.
C20_StringAndMappingAreOneItem ==
    Prepared
       => IF data.of = "list"
          THEN IF cls = "BaseResource"
               THEN data.body = [kind |-> "generator", v |-> data.items]
               ELSE data.body = PySeq([i \in 1..Len(data.items) |->
                                          Resource_item_prepare(Obj(data.items[i]))])
          ELSE IF cls = "BaseResource"
               THEN data.body = item_prepare(IF data.of = "None" THEN 0
                                             ELSE data.items[1]).value
               ELSE data.body = Resource_item_prepare(PreparedItem)


\* The link of the nearest ancestor that was not itself reached locally.
Ancestor ==
    CHOOSE j \in 1..Len(parent) :
       /\ j = 1 \/ ~resource_local(parent, j)
       /\ \A i \in (j + 1)..Len(parent) : resource_local(parent, i)

\* The slug hop k of the chain arrives with: the slug of the next link, or
\* the slug of the resource itself for the last hop.
HopSlug(k) == IF k = Len(parent) THEN slug ELSE parent[k + 1].slug

\* The (field name, slug) pairs of the hops from k down to the resource,
\* the slug left out when it is null or the field is not a collection.
RECURSIVE HopsFrom(_)
HopsFrom(k) ==
    IF k > Len(parent) THEN <<>>
    ELSE <<parent[k].name>>
           \o (IF HopSlug(k) # None
                  /\ FieldOf(parent[k].resource, parent[k].name).collection
               THEN <<HopSlug(k)>> ELSE <<>>)
           \o HopsFrom(k + 1)

\* C21: with local set and a parent present, reverse returns the URL of the
\* nearest non-local ancestor in the form with a path, the path being the
\* hops from that ancestor down to the resource, top-down, followed by the
\* path given; the recursion ends for every chain.
C21_LocalReverse ==
    (pc = "done" /\ cls = "BaseResource"
        /\ "form" \in DOMAIN data /\ local /\ parent # <<>>)
       => data = _url_format("_URL_PATH", parent[Ancestor].resource,
                             parent[Ancestor].slug,
                             HopsFrom(Ancestor)
                                \o (IF path # NoPath THEN path ELSE <<>>))

\* A URL reversed through two local hops, the lower one not a collection.
C21_Witness ==
    /\ pc = "done" /\ "form" \in DOMAIN data /\ local
    /\ Len(parent) = 2 /\ Ancestor = 1
    /\ ~FieldOf(parent[2].resource, parent[2].name).collection
    /\ slug # None /\ path # NoPath


\* The errors of the exceptions module.
TypedErrors ==
    {"BadRequest", "Unauthenticated", "Forbidden", "NotFound",
     "MethodNotAllowed", "NotAcceptable", "UnsupportedMediaType",
     "NotImplemented"}

\* The step that raised was entered with an encoder already resolved.
ResolvedBeforeError ==
    \E i \in 1..(Len(steps) - 1) :
       steps[i] \in {"determine_encoder", "find_encoder"}

\* C22: a typed error raised during dispatch ends in a response with the
\* status of the error, rendered with the negotiated encoder when encoder
\* resolution had succeeded before the error was raised and with the
\* default encoder otherwise.
C22_ErrorRendering ==
    (pc = "done" /\ raised.kind \in TypedErrors /\ steps # <<>>)
       => /\ response.status = error_status(raised.kind)
          /\ response.content = raised
          /\ IF ResolvedBeforeError
             THEN encoder # None /\ response.encoder = encoder
             ELSE response.encoder = "default"

\* C22: an operation refused after xml was negotiated is rendered with xml.
C22_Witness ==
    /\ pc = "done" /\ cls = "BaseResource"
    /\ raised.kind = "Forbidden"
    /\ ResolvedBeforeError
    /\ response.encoder = "xml"
    /\ response.status = 403


\* A failure that is not one of the typed errors has been raised.
UntypedFailure == raised # NoError /\ raised.kind \notin TypedErrors

\* C23: whatever is raised in traversal, instantiation, dispatch, the
\* handler or serialization that is not a typed error is answered by
\* BaseResource.view with a bare 500 response; the failure never leaves the
\* view.
C23_UntypedIsInternalError ==
    /\ [](cls = "BaseResource"
             => /\ pc # "escaped"
                /\ (pc = "done" /\ UntypedFailure)
                      => response = [NoResponse EXCEPT !.status = 500])
    /\ [][(cls = "BaseResource" /\ UntypedFailure /\ pc # "done")
             => (pc' = "done" /\ response'.status = 500)]_vars

\* C23: the NameError of instantiation answered with 500.
C23_Witness ==
    /\ cls = "BaseResource" /\ pc = "done"
    /\ raised.kind = "NameError"
    /\ response.status = 500


\* The Api has been called with a request that carries no body, on a path
\* other than "/", and trailing slashes do not redirect.
Routed ==
    /\ cls = "Api" /\ trailing_slash /\ ~request.data
    /\ request.path # Text("/")

\* No segment of the path is a name of the registry.
NamesNoResource ==
    \A i \in 1..Len(segments_of(request.path)) :
       segments_of(request.path)[i] \notin DOMAIN _registry

\* C24 (as claimed): a request whose path names no registered resource is
\* answered 404, whether the path is a name, a name and a slug, or a nested
\* path; the request never ends otherwise.
C24_UnknownResourceIs404 ==
    (Routed /\ NamesNoResource /\ pc \in {"done", "escaped"})
       => pc = "done" /\ response.status_code = 404

\* C25 (as claimed): when the read of a registered resource raises an
\* exception that is not an HTTP exception, the Api answers 500 and the
\* exception does not leave the WSGI entry point.
C25_ReadFailureIs500 ==
    (cls = "Api" /\ raised.kind = "Exception")
       => /\ pc # "escaped"
          /\ pc = "done" => response.status_code = 500

\* C26 (as claimed): a GET whose read returned None is answered 204, and
\* 200 is the status only when there is data.
C26_NoContentIs204 ==
    (cls = "Api" /\ pc = "done" /\ raised = NoError /\ data.kind = "prepared")
       => response.status_code = IF data.of = "None" THEN 204 ELSE 200

\* The path of the request is in the canonical form of the Api.
Canonical ==
    IF trailing_slash THEN endswith(request.path, Text("/"))
    ELSE ~endswith(request.path, Text("/"))

\* The canonical form of the path of the request.
CanonicalPath ==
    IF trailing_slash THEN request.path \o Text("/")
    ELSE SubSeq(request.path, 1, Len(request.path) - 1)

\* The response is a redirect.
Redirected == response.Location # NoName

\* C27 (as claimed): once the Api has been called, a request in canonical
\* form is routed and never redirected, and a request in the other form is
\* redirected, without being routed, to the canonical form.
C27_RedirectOnlyNonCanonical ==
    (cls = "Api" /\ pc # "api" /\ request.path # Text("/"))
       => IF Canonical
          THEN ~Redirected /\ (pc = "route" \/ In("route", steps))
          ELSE /\ pc = "done" /\ ~In("route", steps)
               /\ response.Location = CanonicalPath

\* C28 (as claimed): a redirect is 301 for GET and 307 for any other
\* method.
C28_RedirectStatus ==
    (cls = "Api" /\ pc = "done" /\ Redirected)
       => response.status_code = IF request.method = "GET" THEN 301 ELSE 307

\* The dash-case of the class names drawn, a trailing "-resource" removed.
DashCase(class_name) ==
    CASE class_name = Text("FooResource") -> <<"f", "o", "o">>
      [] class_name = Text("foo_resource") -> <<"f", "o", "o">>
      [] class_name = Text("FooBar") -> <<"f", "o", "o", "-", "b", "a", "r">>

\* The name the claim files a call of register under.
ClaimedName(call) ==
    IF call.name # NoName THEN call.name
    ELSE IF call.handler.name # NoName THEN call.handler.name
    ELSE DashCase(call.handler.class_name)

\* C29 (as claimed): register files the handler under the name keyword if
\* given, else under the handler's own name attribute if it has one, else
\* under the dash-case of its class name without a trailing "-resource";
\* the entry of that name is then the handler, and no other entry changes.
C29_RegisterName ==
    [][registered' # registered
          => LET call == registered'[Len(registered')]
                 n == ClaimedName(call)
             IN  /\ DOMAIN _registry' = DOMAIN _registry \cup {n}
                 /\ _registry'[n] = call.handler
                 /\ \A k \in DOMAIN _registry \ {n} :
                       _registry'[k] = _registry[k]]_vars

\* The names of the entries of the lists before list i.
EarlierNames(lists, i) ==
    UNION {{lists[j][k][1] : k \in 1..Len(lists[j])} : j \in 1..(i - 1)}

\* The first list whole, then of each later list the entries whose name is
\* in no earlier list.
RECURSIVE ClaimedMerge(_, _)
ClaimedMerge(lists, i) ==
    IF i > Len(lists) THEN <<>>
    ELSE (IF i = 1 THEN lists[1]
          ELSE SelectSeq(lists[i],
                         LAMBDA e : e[1] \notin EarlierNames(lists, i)))
            \o ClaimedMerge(lists, i + 1)

\* C30 (as claimed): merge_headers returns the first list whole, entries
\* repeating a name included, followed by the entries of each later list, in
\* order, whose name is in no earlier list.
C30_MergeKeepsFirstList ==
    (cls = "utils" /\ pc = "done" /\ data.kind = "merged")
       => data.items = ClaimedMerge(data.of, 1)


\* The resource is being resolved: traverse has not ended, or the target it
\* resolved is being instantiated.
Resolving == cls = "BaseResource" /\ pc \in {"traverse", "construct"}

\* C31 (as claimed): a call of traverse that is followed by another has
\* removed at least one segment, so traversal ends; and traversal and the
\* instantiation of its target end either with the target instantiated or
\* with NotFound, for every segment sequence, those that go on past a
\* relation that is not a collection or past a collection accessed as a
\* list included.
C31_TraverseEndsResolvedOrNotFound ==
    [][ /\ (cls = "BaseResource" /\ pc = "traverse" /\ pc' = "traverse")
           => Len(path') < Len(path)
        /\ Resolving
           => \/ pc' \in {"traverse", "construct", "authenticate"}
                 /\ raised' = NoError
              \/ pc' = "view_except_Error"
                 /\ raised' = Error("NotFound") ]_vars


\* _build_prefetch_related_paths has returned to its outermost caller.
BuiltAlone == cls = "armet.BaseModel" /\ pc = "done" /\ data.kind = "built"

\* No element of the list occurs twice.
NoDuplicates(xs) == \A i, j \in 1..Len(xs) : xs[i] = xs[j] => i = j

\* The list of lookups is in strictly descending order.
Descending(xs) == \A i, j \in 1..Len(xs) : i < j => less(xs[j], xs[i])

\* The relation graph has a cycle through both resources.
Cyclic ==
    /\ \E i \in 1..Len(_fields["A"]) : _fields["A"][i].relation.resource = "B"
    /\ \E i \in 1..Len(_fields["B"]) : _fields["B"][i].relation.resource = "A"

\* C40: _build_prefetch_related_paths returns for every relation graph,
\* cyclic ones included, without the nesting of calls ever going beyond the
\* number of relations; no relation is descended into twice in one
\* top-level call, and the list returned has no duplicates and is in
\* descending order.
C40_BuildTerminates ==
    BuiltAlone
       => /\ ~data.built.overflow
          /\ NoDuplicates(data.built.descended)
          /\ Len(data.built.descended) <= 2 * MaxFields
          /\ NoDuplicates(data.built.paths)
          /\ Descending(data.built.paths)

\* C40: built on a cycle A -> B -> A, both relations descended into and two
\* lookups returned.
C40_Witness ==
    /\ BuiltAlone
    /\ Cyclic
    /\ threads[1].call.resource = "A"
    /\ \E i, j \in 1..Len(data.built.descended) :
          /\ i < j
          /\ data.built.descended[i].resource = "B"
          /\ data.built.descended[j].resource = "A"
    /\ Len(data.built.paths) = 2


\* The caches before any request.
NoCache == [c \in ModelResources |-> NotCached]

\* The request of thread t as it arrived.
Arrived(t) ==
    Thread(threads[t].call.resource, threads[t].call.prefix,
           threads[t].call.rows,
           IF cls = "armet.BaseModel" THEN "test" ELSE "init")

\* Every request has returned.
AllReturned ==
    /\ cls \in {"flapjack.BaseModel", "armet.BaseModel"} /\ pc = "prefetch"
    /\ \A t \in DOMAIN threads : threads[t].stack = <<>>

\* The orders the requests can be served in one after the other.
Orders ==
    {ord \in [DOMAIN threads -> DOMAIN threads] :
        \A i, j \in DOMAIN threads : ord[i] = ord[j] => i = j}

\* The requests served one after the other in the order ord, from position
\* k on: the caches at the end and what each request applied.
RECURSIVE Serial(_, _, _, _)
Serial(ord, k, cache, applied) ==
    IF k > Len(ord) THEN [cache |-> cache, applied |-> applied]
    ELSE LET r == run(cache, Arrived(ord[k]))
         IN  Serial(ord, k + 1, r.cache,
                    [applied EXCEPT ![ord[k]] = r.th.applied])

SerialRun(ord) ==
    Serial(ord, 1, NoCache, [t \in DOMAIN threads |-> NotApplied])

\* C32 (as claimed): when several requests use the prefetch-path cache of
\* their classes for the first time at once, under every interleaving the
\* caches end as serving the requests one after the other in some order
\* leaves them, and each request has applied to its queryset a value it
\* would have applied in such a sequential run, never a partly built one.
C32_RaceLeavesSequentialValue ==
    AllReturned
       => /\ \E ord \in Orders :
                _prefetch_related_paths = SerialRun(ord).cache
          /\ \A t \in DOMAIN threads :
                \E ord \in Orders :
                   threads[t].applied = SerialRun(ord).applied[t]

\* The cache of class c holds a value built on some queryset.
Populated(c) ==
    /\ _prefetch_related_paths[c].set
    /\ cls = "flapjack.BaseModel" => _prefetch_related_paths[c].v # <<>>

\* The paths cached for class c when its own request, with no prefix and a
\* queryset that is not empty, is the first to populate the caches.
OwnPaths(c) ==
    run(NoCache,
        Thread(c, NoPrefix, 1,
               IF cls = "armet.BaseModel" THEN "test" ELSE "init")).cache[c].v

\* C33 (as claimed): whichever call populated the cache of a class first -
\* whatever its queryset and its prefix, and also when it was a call made
\* through a relation of another resource - the paths cached for the class
\* are the same, those its own first call caches.
C33_CacheIsStatic ==
    AllReturned
       => \A c \in ModelResources :
             Populated(c) => _prefetch_related_paths[c].v = OwnPaths(c)


\* The static configuration of the resource types.
StaticConfiguration ==
    <<_fields, http_list_allowed_methods, http_detail_allowed_methods,
      list_allowed_operations, detail_allowed_operations, encoders,
      allowed_encoders, default_encoder, decoders, authentication>>

\* C34 (as claimed): no step of a request changes the static configuration
\* of a resource type: its fields with their relations and flags, its
\* allowed methods and operations, its encoders, decoders and
\* authentication chain.
C34_ConfigurationIsStatic == [][StaticConfiguration' = StaticConfiguration]_vars


\* Routing got as far as the lookup of the verb: the request has no body
\* and its path names a registered resource.
VerbLookedUp ==
    /\ cls = "Api" /\ In("route", steps) /\ ~request.data
    /\ request.path # Text("/")
    /\ get_resource(request.path).kind = "return"

\* C35 (as claimed): route calls an attribute of the Api only for the verb
\* get; a request with any other method, the name of another attribute of
\* the Api included, fails MethodNotAllowed and nothing is called.
C35_OnlyVerbHandlers ==
    /\ (cls = "Api" /\ pc = "verb") => function = "get"
    /\ (VerbLookedUp /\ lower(request.method) # "get")
          => raised.kind = "MethodNotAllowed"


\* How many times `step` was taken.
Count(step) == Cardinality({i \in 1..Len(steps) : steps[i] = step})

\* Api.__call__ has returned, or an exception has left it.
CallEnded == cls = "Api" /\ pc \in {"done", "escaped"}

\* C36 (as claimed): teardown is never called without a setup before it,
\* and every call of the Api that called setup has called teardown exactly
\* once by the time it ends, whether routing succeeded, raised an HTTP
\* exception or raised anything else.
C36_SetupPairedWithTeardown ==
    cls = "Api"
       => /\ \A i \in 1..Len(steps) :
                steps[i] = "teardown"
                   => \E j \in 1..(i - 1) : steps[j] = "setup"
          /\ Count("setup") <= 1
          /\ (CallEnded /\ Count("setup") = 1) => Count("teardown") = 1


\* The call that has just been made on the Registry, if this step made one.
Called(op) ==
    /\ Len(steps') = Len(steps) + 1
    /\ steps'[Len(steps')] = op

\* What find is to return for its keywords on the map m.
FindResult(m, kwargs) ==
    IF Cardinality(DOMAIN kwargs) > 1 THEN Returned("TypeError", {})
    ELSE IF \E k \in DOMAIN kwargs : k \in DOMAIN m /\ kwargs[k] \in DOMAIN m[k]
    THEN Returned("object", {m[k][kwargs[k]] : k \in DOMAIN kwargs})
    ELSE Returned("None", {})

\* C37: find and rfind are read-only: after any sequence of register and
\* remove calls, a call of find or rfind, with a registered or an unregistered
\* key or value or with no keyword, leaves the registry map exactly as it
\* was; find returns the object registered for the key and value or None,
\* and raises TypeError when given more than one keyword.
C37_FindAndRfindAreReadOnly ==
    [][/\ Called("rfind") => map' = map
       /\ Called("find") => /\ map' = map
                            /\ data' = FindResult(map, invoked'[1].kwargs)]_vars

\* Only register has been called so far.
OnlyRegistered == \A i \in 1..Len(steps) : steps[i] = "register"

\* after is before with every registration of obj taken out, every other
\* registration kept and no empty key table.
Without(before, after, obj) ==
    /\ \A k \in DOMAIN after :
          /\ DOMAIN after[k] # {}
          /\ k \in DOMAIN before
          /\ \A v \in DOMAIN after[k] :
                /\ after[k][v] # obj
                /\ v \in DOMAIN before[k]
                /\ after[k][v] = before[k][v]
    /\ \A k \in DOMAIN before : \A v \in DOMAIN before[k] :
          before[k][v] # obj =>
             /\ k \in DOMAIN after
             /\ v \in DOMAIN after[k]

\* C38: after any sequence of register calls, remove(obj) leaves no key and
\* value mapped to obj, leaves every registration of other objects unchanged
\* and leaves no empty key table in the map; remove(key=value) has the same
\* effect for the object registered at that key and value, and changes
\* nothing when nothing is registered there.
C38_RemoveTakesOutTheObject ==
    [][OnlyRegistered /\ Called("remove") =>
         LET args == invoked'[1].obj
             kwargs == invoked'[1].kwargs
         IN  /\ (args # None /\ DOMAIN kwargs = {}) =>
                    Without(map, map', args)
             /\ (args = None /\ Cardinality(DOMAIN kwargs) = 1) =>
                    \A k \in DOMAIN kwargs :
                       IF k \in DOMAIN map /\ kwargs[k] \in DOMAIN map[k]
                       THEN Without(map, map', map[k][kwargs[k]])
                       ELSE map' = map]_vars

\* _determine_encoder has returned: nothing was raised by it.
EncoderReturned ==
    /\ EncoderResolved
    /\ raised = NoError
    /\ pc \notin {"except_Error", "except_BaseException"}

\* C39: whenever _determine_encoder returns instead of raising
\* NotAcceptable, the value returned is a non-null encoder whose name is in
\* the resource's allowed_encoders, for every format token, Accept header,
\* encoders map, allowed_encoders and default_encoder.
C39_ReturnedEncoderIsAllowed ==
    EncoderReturned => /\ encoder # None
                       /\ In(encoder, allowed_encoders)

============================================================================
